---- MODULE Spec2Model ----
(***************************************************************************)
(* Load-scoring pipeline of the cognitive calendar server:                 *)
(* computeEventLoads / computeSingleEvent / computeContextSwitch /         *)
(* buildDailySummary of src/server/googleCalendar.js, driven the way the   *)
(* GET /api/events handler of src/server/index.js drives them.             *)
(*                                                                         *)
(* Number representation.  The program computes with JavaScript numbers.   *)
(* The model keeps every quantity as an exact integer in a fixed unit:     *)
(*   weights of BASELINES ............ hundredths   (0.35 -> 35)           *)
(*   gap dampener, time-of-day mult .. tenths       (0.8  -> 8)            *)
(*   mentalLoad, contextSwitchCost,                                        *)
(*   totalLoad (results of clamp) .... thousandths  (0.112 -> 112)         *)
(*   capacityCost, capacityRemaining . tenths of a capacity point          *)
(*                                     (100 -> 1000), so that              *)
(*                                     capacityCost = totalLoad * 100      *)
(*                                     is the same integer as totalLoad    *)
(*   recoveryMinutes ................. 1/10000 minute                      *)
(*   timestamps, durations, gaps ..... whole minutes                       *)
(* The one non-number a JavaScript computation can produce here, NaN, is   *)
(* kept as a distinguished value with JavaScript's rules: arithmetic and   *)
(* Math.max / Math.min on NaN give NaN, every comparison with NaN is       *)
(* false.  Binary floating-point rounding error is not modelled.           *)
(***************************************************************************)
EXTENDS Integers, Sequences, FiniteSets, TLC

VARIABLES
    \* computeEventLoads / buildDailySummary
    events,           \* the argument of computeEventLoads (classified meetings)
    pc,               \* position of the pipeline: off, idle, loop, summary, done
    i,                \* loop index of computeEventLoads (0-based, as in the code)
    enriched,         \* the array computeEventLoads is building / has returned
    runningCapacity,  \* local of computeEventLoads
    summary,          \* result of buildDailySummary, <<>> before it has run
    run,              \* number of the current invocation on this input
    prevOut,          \* responses of the earlier invocations on this input
    \* classifyWithGemini
    geminiConfigured, \* process.env.GCP_PROJECT_ID && process.env.GCP_LOCATION
    cpc,              \* position of classifyWithGemini
    cEvent,           \* its argument, <<>> while it is not running
    requests,         \* generateContent requests sent for cEvent
    text,             \* local text: the text of the first response
    parsedResult,     \* local parsedResult
    retry,            \* local retry: what retryGeminiClassification returned
    resolved,         \* the value the returned promise resolved with
    \* googleCalendar.js
    tokenStore,       \* the module-level tokenStore
    oauthEnv,         \* which of the three GOOGLE_* variables are set
    xpc,              \* position of exchangeCodeForTokens
    lastCall,         \* the last finished call of the module and its result
    \* index.js
    mockEvents,       \* the process-wide array of ./mockEvents
    hpc,              \* position of the GET /api/events handler
    source,           \* req.query.source of that request
    hEvents,          \* its local events
    classified,       \* its local classified
    response,         \* what the handler answered, <<>> before
    voice             \* what the last handleVoiceAction returned, <<>> before

pipelineVars ==
    <<events, pc, i, enriched, runningCapacity, summary, run, prevOut>>

classifyVars ==
    <<geminiConfigured, cpc, cEvent, requests, text, parsedResult, retry,
      resolved>>

storeVars == <<tokenStore, oauthEnv, xpc, lastCall>>

handlerVars == <<mockEvents, hpc, source, hEvents, classified, response, voice>>

serverVars == <<classifyVars, storeVars, handlerVars>>

vars == <<pipelineVars, serverVars>>

-----------------------------------------------------------------------------
(* Bounds of the model *)

MaxLen == 3          \* longest input drawn freely from SampleEvents
MaxDeplete == 11     \* longest input of the capacity-depletion family
MaxRuns == 2         \* invocations of the pipeline on one input

-----------------------------------------------------------------------------
(* JavaScript numbers *)

NaN == -1000000

IsNaN(x) == x = NaN

\* a + b, a - b, a * b
Plus(a, b) == IF IsNaN(a) \/ IsNaN(b) THEN NaN ELSE a + b
Minus(a, b) == IF IsNaN(a) \/ IsNaN(b) THEN NaN ELSE a - b
Times(a, b) == IF IsNaN(a) \/ IsNaN(b) THEN NaN ELSE a * b

\* Math.max(a, b), Math.min(a, b): NaN as soon as one argument is NaN
MathMax(a, b) == IF IsNaN(a) \/ IsNaN(b) THEN NaN ELSE IF a >= b THEN a ELSE b
MathMin(a, b) == IF IsNaN(a) \/ IsNaN(b) THEN NaN ELSE IF a <= b THEN a ELSE b

\* a <= b, a < b: false as soon as one operand is NaN
LessEq(a, b) == ~IsNaN(a) /\ ~IsNaN(b) /\ a <= b
Less(a, b) == ~IsNaN(a) /\ ~IsNaN(b) /\ a < b

\* num / den rounded to the nearest integer, halves away from zero
\* (Number.prototype.toFixed on a value num / den counted in thousandths).
\* The quotient is exact here; toFixed rounds the binary double, which for a
\* decimal tie such as 0.2925 may lie just below the tie and round down.
RoundDiv(num, den) ==
    IF num >= 0 THEN (2 * num + den) \div (2 * den)
    ELSE -((2 * (-num) + den) \div (2 * den))

-----------------------------------------------------------------------------
(* BASELINES, weights in hundredths *)

\* BASELINES with the scalar of social meetings typed as 0.1 for 0.12
BASELINES_SocialScalarTenth ==
    [ meetingType |->
        [ standup |-> 20, status |-> 30, demo |-> 40, planning |-> 60,
          brainstorming |-> 70, design_review |-> 80, decision |-> 90,
          conflict |-> 100, sync |-> 15, social |-> 5 ],
      meetingTypeScalar |->
        [ standup |-> 100, status |-> 100, demo |-> 100, planning |-> 100,
          brainstorming |-> 100, design_review |-> 100, decision |-> 100,
          conflict |-> 100, sync |-> 30, social |-> 10 ],
      roleLoad |->
        [ listener |-> 30, occasional_contributor |-> 50, contributor |-> 80,
          decision_maker |-> 100 ],
      emotionalLoad |->
        [ routine |-> 20, external |-> 40, feedback |-> 60, performance |-> 80,
          conflict |-> 100 ],
      socialLoad |->
        [ s1_2 |-> 20, s3_5 |-> 40, s6_10 |-> 60, s11_20 |-> 80, s20plus |-> 100 ],
      topicChangeCost |->
        [ same_project |-> 0, related_domain |-> 30, different_domain |-> 70,
          unrelated |-> 100 ],
      gapTimeDampener |->
        [ g0_5 |-> 10, g5_15 |-> 8, g15_30 |-> 5, g30plus |-> 2 ],
      timeOfDayMultiplier |->
        [ morning |-> 10, midday |-> 11, afternoon |-> 12, evening |-> 14 ] ]

BASELINES ==
    [ meetingType |->
        [ standup |-> 20, status |-> 30, demo |-> 40, planning |-> 60,
          brainstorming |-> 70, design_review |-> 80, decision |-> 90,
          conflict |-> 100, sync |-> 15, social |-> 5 ],
      meetingTypeScalar |->
        [ standup |-> 100, status |-> 100, demo |-> 100, planning |-> 100,
          brainstorming |-> 100, design_review |-> 100, decision |-> 100,
          conflict |-> 100, sync |-> 30, social |-> 12 ],
      roleLoad |->
        [ listener |-> 30, occasional_contributor |-> 50, contributor |-> 80,
          decision_maker |-> 100 ],
      emotionalLoad |->
        [ routine |-> 20, external |-> 40, feedback |-> 60, performance |-> 80,
          conflict |-> 100 ],
      socialLoad |->
        [ s1_2 |-> 20, s3_5 |-> 40, s6_10 |-> 60, s11_20 |-> 80, s20plus |-> 100 ],
      topicChangeCost |->
        [ same_project |-> 0, related_domain |-> 30, different_domain |-> 70,
          unrelated |-> 100 ],
      gapTimeDampener |->
        [ g0_5 |-> 10, g5_15 |-> 8, g15_30 |-> 5, g30plus |-> 2 ],
      timeOfDayMultiplier |->
        [ morning |-> 10, midday |-> 11, afternoon |-> 12, evening |-> 14 ] ]

\* Property names every object literal inherits from Object.prototype.
\* table[name] finds them on the prototype chain: the value is a function or
\* an object, never null or undefined.
ObjectPrototypeKeys ==
    {"constructor", "toString", "valueOf", "hasOwnProperty", "__proto__"}

\* table[key] ?? default, the value then used as a factor of a product.
\* An own key gives its weight; a key found on the prototype chain gives a
\* non-numeric value, which every multiplication turns into NaN; only a key
\* found nowhere gives undefined and with it the default.
Lookup(table, key, default) ==
    IF key \in DOMAIN table THEN table[key]
    ELSE IF key \in ObjectPrototypeKeys THEN NaN
    ELSE default

-----------------------------------------------------------------------------
(* Bucket functions and clamp *)

\* mapGapDampener with exclusive bounds
mapGapDampener_Exclusive(minutes) ==
    IF Less(minutes, 5) THEN BASELINES.gapTimeDampener.g0_5
    ELSE IF Less(minutes, 15) THEN BASELINES.gapTimeDampener.g5_15
    ELSE IF Less(minutes, 30) THEN BASELINES.gapTimeDampener.g15_30
    ELSE BASELINES.gapTimeDampener.g30plus

mapGapDampener(minutes) ==
    IF LessEq(minutes, 5) THEN BASELINES.gapTimeDampener.g0_5
    ELSE IF LessEq(minutes, 15) THEN BASELINES.gapTimeDampener.g5_15
    ELSE IF LessEq(minutes, 30) THEN BASELINES.gapTimeDampener.g15_30
    ELSE BASELINES.gapTimeDampener.g30plus

\* mapSocialLoad with exclusive bounds
mapSocialLoad_Exclusive(attendees) ==
    IF Less(attendees, 2) THEN BASELINES.socialLoad.s1_2
    ELSE IF Less(attendees, 5) THEN BASELINES.socialLoad.s3_5
    ELSE IF Less(attendees, 10) THEN BASELINES.socialLoad.s6_10
    ELSE IF Less(attendees, 20) THEN BASELINES.socialLoad.s11_20
    ELSE BASELINES.socialLoad.s20plus

mapSocialLoad(attendees) ==
    IF LessEq(attendees, 2) THEN BASELINES.socialLoad.s1_2
    ELSE IF LessEq(attendees, 5) THEN BASELINES.socialLoad.s3_5
    ELSE IF LessEq(attendees, 10) THEN BASELINES.socialLoad.s6_10
    ELSE IF LessEq(attendees, 20) THEN BASELINES.socialLoad.s11_20
    ELSE BASELINES.socialLoad.s20plus

\* date.getHours() of a timestamp counted in minutes of local time
getHours(date) == IF IsNaN(date) THEN NaN ELSE (date \div 60) % 24

getTimeOfDay(date) ==
    LET hour == getHours(date)
    IN  IF Less(hour, 12) THEN "morning"
        ELSE IF Less(hour, 15) THEN "midday"
        ELSE IF Less(hour, 18) THEN "afternoon"
        ELSE "evening"

\* clamp cutting the fourth decimal off instead of rounding to the third
clamp_Truncating(num, den) ==
    IF IsNaN(num) THEN NaN
    ELSE MathMax(0, MathMin(1000, num \div den))

\* clamp(value) for value = num / den thousandths:
\* Math.max(0, Math.min(1, Number(value.toFixed(3))))
clamp(num, den) ==
    IF IsNaN(num) THEN NaN
    ELSE MathMax(0, MathMin(1000, RoundDiv(num, den)))

-----------------------------------------------------------------------------
(* Per-event load calculator and context-switch model *)

\* the value of enriched[i - 1]: <<>> stands for undefined
PrevOf(done, idx) == IF idx = 0 THEN <<>> ELSE <<done[idx]>>

\* classification.topic_tags, read through `?.`: an absent property makes
\* ?.some / ?.includes give undefined, which shares no tag, as an empty
\* array does
TopicTagsOf(classification) ==
    IF "topic_tags" \in DOMAIN classification THEN classification.topic_tags
    ELSE <<>>

\* event.classification.topic_tags?.some(tag => prev...topic_tags?.includes(tag))
TopicOverlap(tags, prevTags) ==
    \E a \in 1..Len(tags) : \E b \in 1..Len(prevTags) : tags[a] = prevTags[b]

\* computeContextSwitch without its `if (!prev) return 0`: the missing
\* predecessor shares no tag and its end is no date, so the gap is NaN
computeContextSwitch_NoPrevGuard(event, prev) ==
    LET prevTags == IF prev = <<>> THEN <<>> ELSE TopicTagsOf(prev[1].classification)
        prevEnd == IF prev = <<>> THEN NaN ELSE prev[1].end
        overlap == TopicOverlap(TopicTagsOf(event.classification), prevTags)
        topicCost == IF overlap THEN BASELINES.topicChangeCost.related_domain
                     ELSE BASELINES.topicChangeCost.unrelated
        gapMinutes == MathMax(0, Minus(event.start, prevEnd))
        gapDampener == mapGapDampener(gapMinutes)
    IN  clamp(Times(topicCost, gapDampener), 1)

\* computeContextSwitch scoring shared topics as same_project (0.0)
computeContextSwitch_SameProject(event, prev) ==
    IF prev = <<>> THEN 0
    ELSE
        LET overlap == TopicOverlap(TopicTagsOf(event.classification),
                                    TopicTagsOf(prev[1].classification))
            topicCost == IF overlap THEN BASELINES.topicChangeCost.same_project
                         ELSE BASELINES.topicChangeCost.unrelated
            gapMinutes == MathMax(0, Minus(event.start, prev[1].end))
            gapDampener == mapGapDampener(gapMinutes)
        IN  clamp(Times(topicCost, gapDampener), 1)

\* computeContextSwitch taking the size of the gap, Math.abs, for the gap
computeContextSwitch_AbsGap(event, prev) ==
    IF prev = <<>> THEN 0
    ELSE
        LET overlap == TopicOverlap(TopicTagsOf(event.classification),
                                    TopicTagsOf(prev[1].classification))
            topicCost == IF overlap THEN BASELINES.topicChangeCost.related_domain
                         ELSE BASELINES.topicChangeCost.unrelated
            gapMinutes == LET d == Minus(event.start, prev[1].end)
                          IN  IF IsNaN(d) THEN NaN ELSE IF d < 0 THEN -d ELSE d
            gapDampener == mapGapDampener(gapMinutes)
        IN  clamp(Times(topicCost, gapDampener), 1)

\* tags compared without regard to letter case; the model's tags differ in
\* case only between "design" and "Design"
FoldCase(tag) == IF tag = "Design" THEN "design" ELSE tag

computeContextSwitch_IgnoreCase(event, prev) ==
    IF prev = <<>> THEN 0
    ELSE
        LET overlap == \E a \in 1..Len(TopicTagsOf(event.classification)) :
                           \E b \in 1..Len(TopicTagsOf(prev[1].classification)) :
                               FoldCase(TopicTagsOf(event.classification)[a]) =
                                   FoldCase(TopicTagsOf(prev[1].classification)[b])
            topicCost == IF overlap THEN BASELINES.topicChangeCost.related_domain
                         ELSE BASELINES.topicChangeCost.unrelated
            gapMinutes == MathMax(0, Minus(event.start, prev[1].end))
            gapDampener == mapGapDampener(gapMinutes)
        IN  clamp(Times(topicCost, gapDampener), 1)

\* computeContextSwitch scoring unshared topics as different_domain (0.7)
computeContextSwitch_DifferentDomain(event, prev) ==
    IF prev = <<>> THEN 0
    ELSE
        LET overlap == TopicOverlap(TopicTagsOf(event.classification),
                                    TopicTagsOf(prev[1].classification))
            topicCost == IF overlap THEN BASELINES.topicChangeCost.related_domain
                         ELSE BASELINES.topicChangeCost.different_domain
            gapMinutes == MathMax(0, Minus(event.start, prev[1].end))
            gapDampener == mapGapDampener(gapMinutes)
        IN  clamp(Times(topicCost, gapDampener), 1)

computeContextSwitch(event, prev) ==
    IF prev = <<>> THEN 0
    ELSE
        LET overlap == TopicOverlap(TopicTagsOf(event.classification),
                                    TopicTagsOf(prev[1].classification))
            topicCost == IF overlap THEN BASELINES.topicChangeCost.related_domain
                         ELSE BASELINES.topicChangeCost.unrelated
            gapMinutes == MathMax(0, Minus(event.start, prev[1].end))
            gapDampener == mapGapDampener(gapMinutes)
        IN  clamp(Times(topicCost, gapDampener), 1)

\* event.attendeeCount || 1
AttendeesOrOne(n) == IF n = 0 \/ IsNaN(n) THEN 1 ELSE n

\* event.attendeeCount: a missing property reads as undefined, falsy like 0
AttendeeCountOf(event) ==
    IF "attendeeCount" \in DOMAIN event THEN event.attendeeCount ELSE 0

\* { ...event, ...computed }
Spread(event, computed) ==
    [ f \in DOMAIN event \cup DOMAIN computed |->
        IF f \in DOMAIN computed THEN computed[f] ELSE event[f] ]

computeSingleEvent(event, prev) ==
    LET start == event.start
        end == event.end
        durationMinutes == MathMax(15, Minus(end, start))
        complexity ==
            Lookup(BASELINES.meetingType, event.classification.meeting_type, 30)
        roleLoad == Lookup(BASELINES.roleLoad, event.classification.role, 50)
        emotionalLoad ==
            Lookup(BASELINES.emotionalLoad,
                   event.classification.emotional_intensity, 40)
        socialLoad == mapSocialLoad(AttendeesOrOne(AttendeeCountOf(event)))
        \* 0.35 c + 0.25 r + 0.25 e + 0.15 s, in 1/10000
        weighted == Plus(Plus(Plus(Times(35, complexity), Times(25, roleLoad)),
                              Times(25, emotionalLoad)), Times(15, socialLoad))
        meetingTypeScalar ==
            Lookup(BASELINES.meetingTypeScalar,
                   event.classification.meeting_type, 100)
        \* (durationMinutes / 60) * weighted * meetingTypeScalar is
        \* durationMinutes * weighted * meetingTypeScalar / 60000 thousandths
        mentalLoad ==
            clamp(Times(Times(durationMinutes, weighted), meetingTypeScalar), 60000)
        contextSwitchCost == computeContextSwitch(event, prev)
        totalLoad == clamp(Plus(mentalLoad, contextSwitchCost), 1)
        timeOfDay == getTimeOfDay(start)
        timeOfDayMultiplier == BASELINES.timeOfDayMultiplier[timeOfDay]
        recoveryMinutes == Times(Times(totalLoad, 20), timeOfDayMultiplier)
        \* totalLoad * 100: thousandths of load are tenths of a capacity point
        capacityCost == totalLoad
    IN  Spread(event,
          [ durationMinutes |-> durationMinutes,
            mentalLoad |-> mentalLoad,
            contextSwitchCost |-> contextSwitchCost,
            totalLoad |-> totalLoad,
            recoveryMinutes |-> recoveryMinutes,
            timeOfDay |-> timeOfDay,
            socialLoad |-> socialLoad,
            capacityCost |-> capacityCost,
            explanation |->
              [ complexity |-> complexity,
                roleLoad |-> roleLoad,
                emotionalLoad |-> emotionalLoad,
                socialLoad |-> socialLoad,
                mentalLoad |-> mentalLoad,
                meetingTypeScalar |-> meetingTypeScalar,
                contextSwitchCost |-> contextSwitchCost,
                timeOfDayMultiplier |-> timeOfDayMultiplier,
                topicTags |-> TopicTagsOf(event.classification) ] ])

\* { ...computed, capacityRemaining: runningCapacity }
WithCapacityRemaining(computed, remaining) ==
    [ f \in DOMAIN computed \cup {"capacityRemaining"} |->
        IF f = "capacityRemaining" THEN remaining ELSE computed[f] ]

-----------------------------------------------------------------------------
(* Daily summary reducer *)

FullCapacity == 1000       \* 100 capacity points
HighRiskBelow == 200       \* 20 capacity points

\* list.reduce((sum, e) => sum + e[field], 0)
RECURSIVE ReduceSum(_, _)
ReduceSum(list, field) ==
    IF list = <<>> THEN 0
    ELSE Plus(ReduceSum(SubSeq(list, 1, Len(list) - 1), field),
              list[Len(list)][field])

\* buildDailySummary dividing by events.length itself: 0 / 0 is NaN
buildDailySummary_NoDivisorGuard(list) ==
    LET totalLoad ==
            IF Len(list) = 0 THEN NaN
            ELSE clamp(ReduceSum(list, "totalLoad"), Len(list))
        capacityRemaining ==
            MathMax(0, Minus(FullCapacity, ReduceSum(list, "capacityCost")))
    IN  [ totalLoad |-> totalLoad,
          capacityRemaining |-> capacityRemaining,
          highRisk |-> Less(capacityRemaining, HighRiskBelow) ]

\* buildDailySummary with highRisk: capacityRemaining <= 20
buildDailySummary_RiskAtTwenty(list) ==
    LET totalLoad ==
            clamp(ReduceSum(list, "totalLoad"),
                  IF Len(list) >= 1 THEN Len(list) ELSE 1)
        capacityRemaining ==
            MathMax(0, Minus(FullCapacity, ReduceSum(list, "capacityCost")))
    IN  [ totalLoad |-> totalLoad,
          capacityRemaining |-> capacityRemaining,
          highRisk |-> LessEq(capacityRemaining, HighRiskBelow) ]

\* buildDailySummary reporting the sum of the loads instead of their mean
buildDailySummary_SumNotMean(list) ==
    LET totalLoad == clamp(ReduceSum(list, "totalLoad"), 1)
        capacityRemaining ==
            MathMax(0, Minus(FullCapacity, ReduceSum(list, "capacityCost")))
    IN  [ totalLoad |-> totalLoad,
          capacityRemaining |-> capacityRemaining,
          highRisk |-> Less(capacityRemaining, HighRiskBelow) ]

buildDailySummary(list) ==
    LET totalLoad ==
            clamp(ReduceSum(list, "totalLoad"),
                  IF Len(list) >= 1 THEN Len(list) ELSE 1)
        capacityRemaining ==
            MathMax(0, Minus(FullCapacity, ReduceSum(list, "capacityCost")))
    IN  [ totalLoad |-> totalLoad,
          capacityRemaining |-> capacityRemaining,
          highRisk |-> Less(capacityRemaining, HighRiskBelow) ]

-----------------------------------------------------------------------------
(* Inputs: classified meetings as the /api/events handler hands them over. *)
(* start and end are minutes of local time, or NaN for a string that       *)
(* new Date() cannot parse.                                                *)

Meeting(id, start, end, attendeeCount, meetingType, role, intensity, tags) ==
    [ id |-> id, start |-> start, end |-> end, attendeeCount |-> attendeeCount,
      classification |->
        [ meeting_type |-> meetingType, role |-> role,
          emotional_intensity |-> intensity, topic_tags |-> tags ] ]

\* a meeting without attendeeCount whose classification has no topic_tags
Bare(id, start, end, meetingType, role, intensity) ==
    [ id |-> id, start |-> start, end |-> end,
      classification |->
        [ meeting_type |-> meetingType, role |-> role,
          emotional_intensity |-> intensity ] ]

SampleEvents ==
    { Meeting("standup", 540, 570, 2, "standup", "listener", "routine",
              <<"general">>),
      Meeting("workshop", 540, 660, 1, "brainstorming", "listener", "routine",
              <<"design">>),
      Meeting("dispute", 600, 780, 21, "conflict", "decision_maker", "conflict",
              <<"hr", "design">>),
      Meeting("backwards", 700, 690, 0, "status", "contributor", "routine",
              <<>>),
      Meeting("unlabelled", 800, 845, 5, "mystery", "mystery", "mystery",
              <<"general", "q3">>),
      Meeting("inherited", 900, 930, 6, "constructor", "listener", "routine",
              <<"q3">>),
      Meeting("nostart", NaN, 960, 3, "demo", "contributor", "external",
              <<"general">>),
      Meeting("noend", 1000, NaN, 11, "planning", "contributor", "feedback",
              <<"design">>),
      Meeting("checkin", 1090, 1120, 10, "sync", "occasional_contributor",
              "routine", <<"Design">>),
      Meeting("party", 1165, 1225, 20, "social", "listener", "routine",
              <<"team">>),
      Bare("bare", 1240, 1300, "decision", "decision_maker", "performance") }

RECURSIVE SeqsUpTo(_, _)
SeqsUpTo(S, n) ==
    IF n = 0 THEN {<<>>}
    ELSE LET shorter == SeqsUpTo(S, n - 1)
         IN  shorter \cup {Append(q, e) : q \in shorter, e \in S}

\* A day of back-to-back related meetings, one every `stride` minutes: a
\* 15-minute kickoff, then 40-minute socials on the same topic.
DepleteStrides == {75, 60, 40, 45, 46, 55, 56, 70, 71}

DepleteMeeting(k, stride) ==
    IF k = 1
    THEN Meeting("kickoff", 0, 15, 1, "brainstorming", "listener", "routine",
                 <<"launch">>)
    ELSE Meeting("social", (k - 1) * stride, (k - 1) * stride + 40, 1, "social",
                 "contributor", "conflict", <<"launch">>)

DepleteInputs ==
    { [k \in 1..n |-> DepleteMeeting(k, stride)] :
        n \in 0..MaxDeplete, stride \in DepleteStrides }

\* One shortest-possible meeting for every combination of labels: each
\* label of the three tables and one label outside them, with the smallest
\* and the largest attendee bucket.
LabelMeeting(meetingType, role, intensity, attendeeCount) ==
    Meeting("brief", 600, 610, attendeeCount, meetingType, role, intensity,
            <<"general">>)

LabelInputs ==
    { <<LabelMeeting(t, r, e, a)>> :
        t \in DOMAIN BASELINES.meetingType \cup {"mystery"},
        r \in DOMAIN BASELINES.roleLoad \cup {"mystery"},
        e \in DOMAIN BASELINES.emotionalLoad \cup {"mystery"},
        a \in {2, 21} }

Inputs == SeqsUpTo(SampleEvents, MaxLen) \cup DepleteInputs \cup LabelInputs

-----------------------------------------------------------------------------
(* The pipeline as the handler runs it *)

\* classifyWithGemini is not running
ClassifyAtRest ==
    /\ cpc = "idle"
    /\ cEvent = <<>>
    /\ requests = 0
    /\ text = <<>>
    /\ parsedResult = <<>>
    /\ retry = <<>>
    /\ resolved = <<>>

\* none of GOOGLE_CLIENT_ID, GOOGLE_CLIENT_SECRET, GOOGLE_REDIRECT_URI set
NoOAuthEnv == [clientId |-> FALSE, clientSecret |-> FALSE, redirectUri |-> FALSE]

\* googleCalendar.js as loaded: tokenStore = { tokens: null }
StoreAtRest ==
    /\ tokenStore = [tokens |-> <<>>]
    /\ xpc = "idle"
    /\ lastCall = <<>>

\* no request is being handled
HandlerAtRest ==
    /\ hpc = "idle"
    /\ source = ""
    /\ hEvents = <<>>
    /\ classified = <<>>
    /\ response = <<>>
    /\ voice = [pc |-> "idle"]

Init ==
    /\ events \in Inputs
    /\ pc = "idle"
    /\ i = 0
    /\ enriched = <<>>
    /\ runningCapacity = FullCapacity
    /\ summary = <<>>
    /\ run = 1
    /\ prevOut = <<>>
    /\ geminiConfigured = FALSE
    /\ ClassifyAtRest
    /\ oauthEnv = NoOAuthEnv
    /\ StoreAtRest
    /\ mockEvents = <<>>
    /\ HandlerAtRest

\* computeEventLoads with runningCapacity kept at module level
Invoke_StaleCapacity ==
    /\ pc = "idle"
    /\ enriched' = <<>>
    /\ i' = 0
    /\ pc' = "loop"
    /\ UNCHANGED <<events, runningCapacity, summary, run, prevOut>>
    /\ UNCHANGED serverVars

\* computeEventLoads(classified): the locals are set up
Invoke ==
    /\ pc = "idle"
    /\ runningCapacity' = FullCapacity
    /\ enriched' = <<>>
    /\ i' = 0
    /\ pc' = "loop"
    /\ UNCHANGED <<events, summary, run, prevOut>>
    /\ UNCHANGED serverVars

\* the loop body without Math.max(0, ...)
LoopStep_NoFloor ==
    /\ pc = "loop"
    /\ i < Len(events)
    /\ LET event == events[i + 1]
           prev == PrevOf(enriched, i)
           computed == computeSingleEvent(event, prev)
           remaining == Minus(runningCapacity, computed.capacityCost)
       IN  /\ runningCapacity' = remaining
           /\ enriched' = Append(enriched, WithCapacityRemaining(computed, remaining))
    /\ i' = i + 1
    /\ UNCHANGED <<events, pc, summary, run, prevOut>>
    /\ UNCHANGED serverVars

\* the loop body putting the new meeting in front (unshift for push)
LoopStep_Unshift ==
    /\ pc = "loop"
    /\ i < Len(events)
    /\ LET event == events[i + 1]
           prev == PrevOf(enriched, i)
           computed == computeSingleEvent(event, prev)
           remaining == MathMax(0, Minus(runningCapacity, computed.capacityCost))
       IN  /\ runningCapacity' = remaining
           /\ enriched' = <<WithCapacityRemaining(computed, remaining)>> \o enriched
    /\ i' = i + 1
    /\ UNCHANGED <<events, pc, summary, run, prevOut>>
    /\ UNCHANGED serverVars

\* the loop body writing the scores into the input meeting itself
\* (Object.assign(event, ...) for the two object spreads)
LoopStep_InPlace ==
    /\ pc = "loop"
    /\ i < Len(events)
    /\ LET event == events[i + 1]
           prev == PrevOf(enriched, i)
           computed == computeSingleEvent(event, prev)
           remaining == MathMax(0, Minus(runningCapacity, computed.capacityCost))
       IN  /\ runningCapacity' = remaining
           /\ enriched' = Append(enriched, WithCapacityRemaining(computed, remaining))
           /\ events' = [events EXCEPT
                            ![i + 1] = WithCapacityRemaining(computed, remaining)]
    /\ i' = i + 1
    /\ UNCHANGED <<pc, summary, run, prevOut>>
    /\ UNCHANGED serverVars

\* one iteration of the for loop of computeEventLoads
LoopStep ==
    /\ pc = "loop"
    /\ i < Len(events)
    /\ LET event == events[i + 1]
           prev == PrevOf(enriched, i)
           computed == computeSingleEvent(event, prev)
           remaining == MathMax(0, Minus(runningCapacity, computed.capacityCost))
       IN  /\ runningCapacity' = remaining
           /\ enriched' = Append(enriched, WithCapacityRemaining(computed, remaining))
    /\ i' = i + 1
    /\ UNCHANGED <<events, pc, summary, run, prevOut>>
    /\ UNCHANGED serverVars

\* the loop condition fails; computeEventLoads returns enriched
LoopExit ==
    /\ pc = "loop"
    /\ ~(i < Len(events))
    /\ pc' = "summary"
    /\ UNCHANGED <<events, i, enriched, runningCapacity, summary, run, prevOut>>
    /\ UNCHANGED serverVars

\* const summary = buildDailySummary(enriched)
Summarise ==
    /\ pc = "summary"
    /\ summary' = buildDailySummary(enriched)
    /\ pc' = "done"
    /\ UNCHANGED <<events, i, enriched, runningCapacity, run, prevOut>>
    /\ UNCHANGED serverVars

\* res.json({ events: enriched, summary }); the same input is then
\* submitted again
Respond ==
    /\ pc = "done"
    /\ run < MaxRuns
    /\ prevOut' = Append(prevOut, [events |-> enriched, summary |-> summary])
    /\ run' = run + 1
    /\ enriched' = <<>>
    /\ summary' = <<>>
    /\ i' = 0
    /\ pc' = "idle"
    /\ UNCHANGED <<events, runningCapacity>>
    /\ UNCHANGED serverVars

Next == Invoke \/ LoopStep \/ LoopExit \/ Summarise \/ Respond

Spec == Init /\ [][Next]_vars

-----------------------------------------------------------------------------
(* Strings.  A string the code searches or builds (a title, a query, the   *)
(* tags made of a title) is a sequence of one-character strings; a label,  *)
(* only ever used as a key or compared as a whole, is a string.            *)

UpperCase ==
    [ A |-> "a", B |-> "b", C |-> "c", D |-> "d", E |-> "e", F |-> "f",
      G |-> "g", H |-> "h", I |-> "i", J |-> "j", K |-> "k", L |-> "l",
      M |-> "m", N |-> "n", O |-> "o", P |-> "p", Q |-> "q", R |-> "r",
      S |-> "s", T |-> "t", U |-> "u", V |-> "v", W |-> "w", X |-> "x",
      Y |-> "y", Z |-> "z" ]

\* str.toLowerCase()
toLowerCase(str) ==
    [k \in 1..Len(str) |->
        IF str[k] \in DOMAIN UpperCase THEN UpperCase[str[k]] ELSE str[k]]

\* str.includes(part), part not empty
includes(str, part) ==
    \E k \in 0..(Len(str) - Len(part)) : SubSeq(str, k + 1, k + Len(part)) = part

\* A property whose value may be a string or a number: the value with its
\* typeof; value holds the characters String(v) gives.
JSString(chars) == [typeof |-> "string", value |-> chars]
JSNumber(digits) == [typeof |-> "number", value |-> digits]

\* v is truthy: not "", not 0
Truthy(v) ==
    IF v.typeof = "string" THEN v.value # <<>> ELSE v.value # <<"0">>

\* Topic tags of the events and responses below
TagGeneral == <<"g", "e", "n", "e", "r", "a", "l">>
TagRoadmap == <<"r", "o", "a", "d", "m", "a", "p">>
TagTeam == <<"t", "e", "a", "m">>
TagAsync == <<"a", "s", "y", "n", "c">>
TagDemo == <<"d", "e", "m", "o">>
TagBirthday == <<"b", "i", "r", "t", "h", "d", "a", "y">>
TagQ3 == <<"q", "3">>
TagDesign == <<"d", "e", "s", "i", "g", "n">>
TagHr == <<"h", "r">>

-----------------------------------------------------------------------------
(* The text of a model response, as the tokens the code tells apart:       *)
(* braces, code fences, white space, other prose, the literal null, and    *)
(* the members written between two braces.                                 *)

Tok(t) == [t |-> t]
Members(m) == [t |-> "members", v |-> m]

IsSpace(tok) == tok.t = "ws"

RECURSIVE trimStart(_)
trimStart(toks) ==
    IF toks # <<>> /\ IsSpace(Head(toks)) THEN trimStart(Tail(toks)) ELSE toks

RECURSIVE trimEnd(_)
trimEnd(toks) ==
    IF toks # <<>> /\ IsSpace(toks[Len(toks)])
    THEN trimEnd(SubSeq(toks, 1, Len(toks) - 1)) ELSE toks

\* str.trim()
trim(toks) == trimEnd(trimStart(toks))

\* .replace(/^```json\s*/i, "").replace(/^```\s*/i, "").replace(/```$/i, "")
stripFences(toks) ==
    LET a == IF toks # <<>> /\ Head(toks).t = "fence_json"
             THEN trimStart(Tail(toks)) ELSE toks
        b == IF a # <<>> /\ Head(a).t = "fence" THEN trimStart(Tail(a)) ELSE a
    IN  IF b # <<>> /\ b[Len(b)].t = "fence" THEN SubSeq(b, 1, Len(b) - 1) ELSE b

\* text.indexOf("{") and text.lastIndexOf("}"), 1-based, 0 for -1
indexOfOpen(toks) ==
    IF \E k \in 1..Len(toks) : toks[k].t = "{"
    THEN CHOOSE k \in 1..Len(toks) :
             toks[k].t = "{" /\ \A j \in 1..(k - 1) : toks[j].t # "{"
    ELSE 0

lastIndexOfClose(toks) ==
    IF \E k \in 1..Len(toks) : toks[k].t = "}"
    THEN CHOOSE k \in 1..Len(toks) :
             toks[k].t = "}" /\ \A j \in (k + 1)..Len(toks) : toks[j].t # "}"
    ELSE 0

\* extractJsonBlock(text): <<>> for null, else the slice in a 1-tuple
extractJsonBlock(toks) ==
    LET start == indexOfOpen(toks)
        end == lastIndexOfClose(toks)
    IN  IF start = 0 \/ end = 0 \/ end <= start THEN <<>>
        ELSE <<SubSeq(toks, start, end)>>

\* JSON.parse(candidate): an object with the members written, the empty
\* object, or null; every other text throws
JSONparse(toks) ==
    LET body == SelectSeq(toks, LAMBDA tok : ~IsSpace(tok))
    IN  IF Len(body) = 3 /\ body[1].t = "{" /\ body[2].t = "members"
             /\ body[3].t = "}"
        THEN [threw |-> FALSE, kind |-> "object", members |-> body[2].v]
        ELSE IF Len(body) = 2 /\ body[1].t = "{" /\ body[2].t = "}"
        THEN [threw |-> FALSE, kind |-> "object", members |-> [none |-> ""]]
        ELSE IF Len(body) = 1 /\ body[1].t = "null"
        THEN [threw |-> FALSE, kind |-> "null", members |-> [none |-> ""]]
        ELSE [threw |-> TRUE, kind |-> "", members |-> [none |-> ""]]

\* !parsed[field]: the member is missing or the empty string
Missing(members, field) ==
    field \notin DOMAIN members \/ members[field] = ""

\* event[field] || default for a label of the event
OwnOr(event, field, default) ==
    IF field \in DOMAIN event /\ event[field] # "" THEN event[field] ELSE default

fallbackClassification(event) ==
    [ meeting_type |-> OwnOr(event, "meetingType", "status"),
      role |-> OwnOr(event, "userRole", "contributor"),
      emotional_intensity |-> OwnOr(event, "emotionalIntensity", "routine"),
      \* an array, also the empty one, is truthy
      topic_tags |-> IF "topicTags" \in DOMAIN event THEN event.topicTags
                     ELSE <<TagGeneral>> ]

\* parseGeminiOutput(text, event); a parsed null makes parsed.meeting_type
\* throw inside the try, which the catch answers like a parse error
parseGeminiOutput(toks, event) ==
    LET cleaned == trim(stripFences(trim(toks)))
        jsonSlice == extractJsonBlock(cleaned)
        candidate == IF jsonSlice # <<>> THEN jsonSlice[1] ELSE cleaned
        parsed == JSONparse(candidate)
        failed == [ok |-> FALSE, classification |-> fallbackClassification(event)]
    IN  IF parsed.threw \/ parsed.kind = "null" THEN failed
        ELSE IF \/ Missing(parsed.members, "meeting_type")
                \/ Missing(parsed.members, "role")
                \/ Missing(parsed.members, "emotional_intensity")
        THEN failed
        ELSE [ ok |-> TRUE,
               classification |->
                 [ meeting_type |-> parsed.members.meeting_type,
                   role |-> parsed.members.role,
                   emotional_intensity |-> parsed.members.emotional_intensity,
                   \* Array.isArray(parsed.topic_tags) ? parsed.topic_tags : []
                   topic_tags |->
                     IF "topic_tags" \in DOMAIN parsed.members
                          /\ "array" \in DOMAIN parsed.members.topic_tags
                     THEN parsed.members.topic_tags.array ELSE <<>> ] ]

-----------------------------------------------------------------------------
(* classifyWithGemini *)

Birthday == <<"b", "i", "r", "t", "h", "d", "a", "y">>
Celebration == <<"c", "e", "l", "e", "b", "r", "a", "t", "i", "o", "n">>
Sync == <<"s", "y", "n", "c">>
CheckInHyphen == <<"c", "h", "e", "c", "k", "-", "i", "n">>
CheckInSpace == <<"c", "h", "e", "c", "k", " ", "i", "n">>

\* shouldRetryGemini answering yes to every text that failed to parse
shouldRetryGemini_Always(toks) == TRUE

shouldRetryGemini(toks) ==
    LET trimmed == trim(toks)
        hasOpenBrace == \E k \in 1..Len(trimmed) : trimmed[k].t = "{"
        hasCloseBrace == \E k \in 1..Len(trimmed) : trimmed[k].t = "}"
    IN  IF trimmed = <<>> THEN FALSE
        ELSE hasOpenBrace /\ ~hasCloseBrace

\* applyTitleOverrides(event, classification).  (event.title || "") is the
\* title when it is truthy; .toLowerCase() exists on strings only, so a
\* truthy title of another type throws a TypeError.
applyTitleOverrides(event, c) ==
    LET truthy == "title" \in DOMAIN event /\ Truthy(event.title)
        title == IF truthy THEN toLowerCase(event.title.value) ELSE <<>>
    IN  IF truthy /\ event.title.typeof # "string"
        THEN [threw |-> TRUE, value |-> c]
        ELSE IF includes(title, Birthday) \/ includes(title, Celebration)
        THEN [threw |-> FALSE,
              value |-> [c EXCEPT !.meeting_type = "social",
                                  !.emotional_intensity = "routine"]]
        ELSE IF \/ includes(title, Sync) \/ includes(title, CheckInHyphen)
                \/ includes(title, CheckInSpace)
        THEN [threw |-> FALSE,
              value |-> [c EXCEPT !.meeting_type = "sync",
                                  !.emotional_intensity = "routine"]]
        ELSE [threw |-> FALSE, value |-> c]

\* the catch block of classifyWithGemini:
\* return applyTitleOverrides(event, fallbackClassification(event)),
\* a throw in it rejects the promise
Caught(event) ==
    LET r == applyTitleOverrides(event, fallbackClassification(event))
    IN  IF r.threw THEN [pc |-> "rejected", value |-> <<>>]
        ELSE [pc |-> "resolved", value |-> <<r.value>>]

\* lines 350-357: the overrides on the parsed classification, then return;
\* a throw is caught by the catch block
Finished(event, parsed) ==
    LET r == applyTitleOverrides(event, parsed.classification)
    IN  IF r.threw THEN Caught(event)
        ELSE [pc |-> "resolved", value |-> <<r.value>>]


\* Titles of the events below
TitleRoadmap == <<"R", "o", "a", "d", "m", "a", "p">>
TitleTeamSync == <<"T", "e", "a", "m", " ", "S", "y", "n", "c">>
TitleAsyncDemo == <<"A", "s", "y", "n", "c", " ", "d", "e", "m", "o">>
TitleBirthdayCheckIn ==
    <<"B", "i", "r", "t", "h", "d", "a", "y", " ", "c", "h", "e", "c", "k",
      "-", "i", "n">>
TitleCheckIn == <<"C", "h", "e", "c", "k", " ", "i", "n">>
TitleLunch == <<"L", "u", "n", "c", "h">>
Digits2025 == <<"2", "0", "2", "5">>

\* An event as mapGoogleEvent, the voice action or ./mockEvents provide it
RawEvent(id, title, start, end, attendeeCount, userRole, meetingType, emotionalIntensity, topicTags) ==
    [ id |-> id, title |-> title, start |-> start, end |-> end,
      attendeeCount |-> attendeeCount, userRole |-> userRole,
      meetingType |-> meetingType, emotionalIntensity |-> emotionalIntensity,
      topicTags |-> topicTags ]

\* the event handleVoiceAction stores for a request without source google
VoiceEvent(id, title, start, end) ==
    RawEvent(id, title, start, end, 1, "contributor", "status", "routine", <<>>)

\* Events classifyWithGemini is called with: titles with and without the
\* overriding words, in either case and inside a longer word; an event
\* with none of the optional properties; events stored by the voice action,
\* one of them with the number the model gave as its title.
RawEvents ==
    { RawEvent("roadmap", JSString(TitleRoadmap), 540, 600, 4,
               "decision_maker", "planning", "feedback", <<TagRoadmap>>),
      RawEvent("teamsync", JSString(TitleTeamSync), 600, 630, 6,
               "contributor", "status", "routine", <<TagTeam>>),
      RawEvent("async", JSString(TitleAsyncDemo), 660, 690, 12,
               "listener", "demo", "external", <<TagAsync, TagDemo>>),
      RawEvent("birthday", JSString(TitleBirthdayCheckIn), 720, 780, 21,
               "contributor", "status", "routine", <<TagBirthday>>),
      RawEvent("checkin", JSString(TitleCheckIn), 840, 855, 2,
               "", "", "", <<>>),
      [id |-> "sparse", start |-> 900, end |-> 930],
      VoiceEvent("evt-1", JSString(TitleLunch), 965, NaN),
      VoiceEvent("evt-2", JSNumber(Digits2025), 1080, 1140) }

\* Members a response may carry between its braces
MembersFull ==
    [ meeting_type |-> "decision", role |-> "decision_maker",
      emotional_intensity |-> "performance",
      topic_tags |-> [array |-> <<TagRoadmap, TagQ3>>] ]

\* labels outside the allowed values, tags not an array
MembersOffList ==
    [ meeting_type |-> "constructor", role |-> "chair",
      emotional_intensity |-> "tense", topic_tags |-> [string |-> TagQ3] ]

MembersNoTags ==
    [ meeting_type |-> "demo", role |-> "listener",
      emotional_intensity |-> "external" ]

MembersNoRole ==
    [ meeting_type |-> "brainstorming", emotional_intensity |-> "routine",
      topic_tags |-> [array |-> <<TagDesign>>] ]

MembersEmptyIntensity ==
    [ meeting_type |-> "conflict", role |-> "contributor",
      emotional_intensity |-> "", topic_tags |-> [array |-> <<TagHr>>] ]

\* Texts of a response: data?.candidates?.[0]?.content?.parts?.[0]?.text || ""
ResponseTexts ==
    { <<>>,
      <<Tok("ws")>>,
      <<Tok("prose")>>,
      <<Tok("null")>>,
      <<Tok("{"), Tok("}")>>,
      <<Tok("}"), Tok("prose"), Tok("{")>>,
      <<Tok("{"), Members(MembersFull), Tok("}")>>,
      <<Tok("fence_json"), Tok("ws"), Tok("{"), Members(MembersOffList),
        Tok("}"), Tok("ws"), Tok("fence")>>,
      <<Tok("prose"), Tok("ws"), Tok("{"), Tok("ws"), Members(MembersNoTags),
        Tok("}"), Tok("prose")>>,
      <<Tok("{"), Members(MembersNoRole), Tok("}")>>,
      <<Tok("fence"), Tok("{"), Members(MembersEmptyIntensity), Tok("}")>>,
      <<Tok("{"), Members(MembersFull), Tok("}"), Tok("{"),
        Members(MembersNoTags), Tok("}")>>,
      \* cut off by maxOutputTokens
      <<Tok("{"), Members(MembersNoRole)>>,
      <<Tok("fence_json"), Tok("ws"), Tok("{")>> }

\* What awaiting fetch(...) and response.json() can end in: an exception,
\* a response that is not ok, or a body with a text
FetchOutcomes ==
    { [kind |-> "throws", text |-> <<>>], [kind |-> "not_ok", text |-> <<>>] }
        \cup { [kind |-> "ok", text |-> t] : t \in ResponseTexts }

\* classifyWithGemini up to its first await: the configuration test
ClassifyEnter ==
    /\ cpc = "called"
    /\ IF ~geminiConfigured
       THEN /\ resolved' = <<fallbackClassification(cEvent[1])>>
            /\ cpc' = "resolved"
       ELSE /\ cpc' = "auth"
            /\ UNCHANGED resolved
    /\ UNCHANGED <<geminiConfigured, cEvent, requests, text, parsedResult, retry>>
    /\ UNCHANGED <<pipelineVars, storeVars, handlerVars>>

\* await auth.getClient(); await client.getAccessToken()
ClassifyAuth ==
    /\ cpc = "auth"
    /\ \E authenticated \in BOOLEAN :
          IF authenticated
          THEN cpc' = "fetch" /\ UNCHANGED resolved
          ELSE cpc' = Caught(cEvent[1]).pc /\ resolved' = Caught(cEvent[1]).value
    /\ UNCHANGED <<geminiConfigured, cEvent, requests, text, parsedResult, retry>>
    /\ UNCHANGED <<pipelineVars, storeVars, handlerVars>>

\* the first request with what follows it up to the next await or the return
ClassifyFetch ==
    /\ cpc = "fetch"
    /\ requests' = requests + 1
    /\ \E outcome \in FetchOutcomes :
          CASE outcome.kind = "throws" ->
                 /\ cpc' = Caught(cEvent[1]).pc
                 /\ resolved' = Caught(cEvent[1]).value
                 /\ UNCHANGED <<text, parsedResult>>
            [] outcome.kind = "not_ok" ->
                 /\ cpc' = "resolved"
                 /\ resolved' = <<fallbackClassification(cEvent[1])>>
                 /\ UNCHANGED <<text, parsedResult>>
            [] outcome.kind = "ok" ->
                 LET parsed == parseGeminiOutput(outcome.text, cEvent[1])
                 IN  /\ text' = <<outcome.text>>
                     /\ parsedResult' = <<parsed>>
                     /\ IF ~parsed.ok /\ shouldRetryGemini(outcome.text)
                        THEN cpc' = "retry" /\ UNCHANGED resolved
                        ELSE /\ cpc' = Finished(cEvent[1], parsed).pc
                             /\ resolved' = Finished(cEvent[1], parsed).value
    /\ UNCHANGED <<geminiConfigured, cEvent, retry>>
    /\ UNCHANGED <<pipelineVars, storeVars, handlerVars>>

\* await retryGeminiClassification(event, prompt, token), which answers
\* { text: "" } to an exception and to a response that is not ok, and what
\* follows it up to the return
ClassifyRetry ==
    /\ cpc = "retry"
    /\ requests' = requests + 1
    /\ \E outcome \in FetchOutcomes :
          LET again == [text |-> IF outcome.kind = "ok" THEN outcome.text ELSE <<>>]
              parsed == IF again.text # <<>>
                        THEN parseGeminiOutput(again.text, cEvent[1])
                        ELSE parsedResult[1]
          IN  /\ retry' = <<again>>
              /\ parsedResult' = <<parsed>>
              /\ cpc' = Finished(cEvent[1], parsed).pc
              /\ resolved' = Finished(cEvent[1], parsed).value
    /\ UNCHANGED <<geminiConfigured, cEvent, text>>
    /\ UNCHANGED <<pipelineVars, storeVars, handlerVars>>

\* classifyWithGemini called once on an event, configured or not
InitClassify ==
    /\ geminiConfigured \in BOOLEAN
    /\ \E event \in RawEvents : cEvent = <<event>>
    /\ cpc = "called"
    /\ requests = 0
    /\ text = <<>>
    /\ parsedResult = <<>>
    /\ retry = <<>>
    /\ resolved = <<>>
    /\ events = <<>>
    /\ pc = "off"
    /\ i = 0
    /\ enriched = <<>>
    /\ runningCapacity = FullCapacity
    /\ summary = <<>>
    /\ run = 1
    /\ prevOut = <<>>
    /\ oauthEnv = NoOAuthEnv
    /\ StoreAtRest
    /\ mockEvents = <<>>
    /\ HandlerAtRest

NextClassify == ClassifyEnter \/ ClassifyAuth \/ ClassifyFetch \/ ClassifyRetry

SpecClassify == InitClassify /\ [][NextClassify]_vars

-----------------------------------------------------------------------------
(* googleCalendar.js: the token store and the calls to the calendar        *)
(* provider                                                                *)

\* getOAuthClient(): <<>> for null
getOAuthClient(env) ==
    IF ~env.clientId \/ ~env.clientSecret \/ ~env.redirectUri THEN <<>>
    ELSE <<"OAuth2">>

\* Boolean(tokenStore.tokens?.access_token)
hasTokens(store) ==
    /\ store.tokens # <<>>
    /\ "access_token" \in DOMAIN store.tokens[1]
    /\ store.tokens[1].access_token # ""

\* Credentials client.getToken(code) may resolve with
TokenValues ==
    { [access_token |-> "ya29.first", refresh_token |-> "1//first"],
      [access_token |-> "ya29.second"],
      [refresh_token |-> "1//only"] }

Untitled ==
    <<"U", "n", "t", "i", "t", "l", "e", "d", " ", "M", "e", "e", "t", "i",
      "n", "g">>
SummaryStandup ==
    <<"D", "a", "i", "l", "y", " ", "s", "t", "a", "n", "d", "u", "p">>
SummaryPlan ==
    <<"Q", "3", "\\", "s", "P", "l", "a", "n", ":", " ", "S", "y", "n", "c">>

\* the characters /[^a-z0-9]/g leaves in place
LowerAlnum ==
    {UpperCase[c] : c \in DOMAIN UpperCase}
        \cup {"0", "1", "2", "3", "4", "5", "6", "7", "8", "9"}

\* the end of the run of "s" that starts at position k
RECURSIVE RunOfS(_, _)
RunOfS(chars, k) ==
    IF k < Len(chars) /\ chars[k + 1] = "s" THEN RunOfS(chars, k + 1) ELSE k

\* str.split(/\\s+/): the expression, as written, matches a backslash
\* followed by one or more "s"
RECURSIVE split(_)
split(chars) ==
    IF \E k \in 1..(Len(chars) - 1) : chars[k] = "\\" /\ chars[k + 1] = "s"
    THEN LET k == CHOOSE k \in 1..(Len(chars) - 1) :
                      /\ chars[k] = "\\" /\ chars[k + 1] = "s"
                      /\ \A j \in 1..(k - 1) : ~(chars[j] = "\\" /\ chars[j + 1] = "s")
         IN  <<SubSeq(chars, 1, k - 1)>>
                 \o split(SubSeq(chars, RunOfS(chars, k + 1) + 1, Len(chars)))
    ELSE <<chars>>

buildTopicTags(str) ==
    IF str = <<>> THEN <<TagGeneral>>
    ELSE LET words == split(toLowerCase(str))
             stripped == [k \in 1..Len(words) |->
                             SelectSeq(words[k], LAMBDA c : c \in LowerAlnum)]
             kept == SelectSeq(stripped, LAMBDA w : w # <<>>)
         IN  SubSeq(kept, 1, IF Len(kept) < 3 THEN Len(kept) ELSE 3)

\* midnight of the day a time lies in
DayStart(date) == date - (date % 1440)

\* mapGoogleEvent(item).  Times are minutes, NaN for a string no Date can
\* be made of; toISOString throws a RangeError on such a Date.
mapGoogleEvent(item) ==
    LET hasStartDate == "start" \in DOMAIN item /\ "date" \in DOMAIN item.start
        hasEndDate == "end" \in DOMAIN item /\ "date" \in DOMAIN item.end
        \* new Date(undefined) is as invalid as new Date("no date")
        startDate0 ==
            IF "start" \notin DOMAIN item THEN NaN
            ELSE IF "dateTime" \in DOMAIN item.start THEN item.start.dateTime
            ELSE IF "date" \in DOMAIN item.start THEN item.start.date
            ELSE NaN
        endDate0 ==
            IF "end" \in DOMAIN item /\ "dateTime" \in DOMAIN item.end
            THEN item.end.dateTime
            ELSE IF hasEndDate THEN item.end.date
            ELSE Plus(startDate0, 60)
        allDay == hasStartDate /\ hasEndDate
        \* startDate.setHours(9, 0, 0, 0)
        startDate == IF allDay /\ ~IsNaN(startDate0)
                     THEN DayStart(startDate0) + 540 ELSE startDate0
        endDate == IF allDay THEN Plus(startDate, 60) ELSE endDate0
        itemSummary == IF "summary" \in DOMAIN item THEN item.summary ELSE <<>>
    IN  IF IsNaN(startDate) \/ IsNaN(endDate) THEN [threw |-> TRUE]
        ELSE [ threw |-> FALSE,
               value |->
                 RawEvent(IF "id" \in DOMAIN item /\ item.id # "" THEN item.id
                          ELSE ToString(startDate),
                          JSString(IF itemSummary # <<>> THEN itemSummary
                                   ELSE Untitled),
                          startDate, endDate,
                          IF "attendees" \in DOMAIN item /\ item.attendees # 0
                          THEN item.attendees ELSE 1,
                          "contributor", "status", "routine",
                          buildTopicTags(itemSummary)) ]

\* items.map((item) => mapGoogleEvent(item)); the first throw ends it
mapItems(items) ==
    IF \E k \in 1..Len(items) : mapGoogleEvent(items[k]).threw
    THEN [threw |-> TRUE, value |-> <<>>]
    ELSE [threw |-> FALSE,
          value |-> [k \in 1..Len(items) |-> mapGoogleEvent(items[k]).value]]

\* Items the calendar provider may list or return
ItemStandup ==
    [ id |-> "g-1", summary |-> SummaryStandup, start |-> [dateTime |-> 540],
      end |-> [dateTime |-> 555], attendees |-> 5 ]

\* an all-day entry without a summary
ItemAllDay ==
    [ id |-> "g-2", start |-> [date |-> 1440], end |-> [date |-> 2880] ]

\* no id, no end, no attendees
ItemPlan == [ summary |-> SummaryPlan, start |-> [dateTime |-> 480] ]

\* a start no Date can be made of
ItemBroken ==
    [ id |-> "g-4", summary |-> SummaryStandup, start |-> [dateTime |-> NaN],
      end |-> [dateTime |-> 600] ]

\* What awaiting the provider can end in: a rejection, or response.data
ListOutcomes ==
    { [kind |-> "rejects", items |-> <<>>] }
        \cup { [kind |-> "ok", items |-> items] :
                 items \in { <<>>, <<ItemStandup, ItemPlan>>,
                             <<ItemAllDay, ItemStandup>>,
                             <<ItemPlan, ItemBroken>> } }

CalendarOutcomes ==
    { [kind |-> "rejects", items |-> <<>>],
      [kind |-> "ok", items |-> <<>>],
      [kind |-> "ok",
       items |-> << [id |-> "primary", summary |-> "Me", primary |-> TRUE],
                    [id |-> "team", summary |-> "Team"] >>] }

InsertOutcomes ==
    { [kind |-> "rejects", data |-> <<>>], [kind |-> "ok", data |-> <<>>] }
        \cup { [kind |-> "ok", data |-> <<item>>] :
                 item \in {ItemStandup, ItemBroken} }

\* fetchCalendarEvents: what the returned promise settles with, and
\* whether the provider was asked
fetchCalendarEvents(store, env, outcome) ==
    IF getOAuthClient(env) = <<>> \/ store.tokens = <<>>
    THEN [provider |-> FALSE, rejected |-> FALSE, value |-> <<>>]
    ELSE IF outcome.kind = "rejects"
    THEN [provider |-> TRUE, rejected |-> TRUE, value |-> <<>>]
    ELSE [provider |-> TRUE, rejected |-> mapItems(outcome.items).threw,
          value |-> mapItems(outcome.items).value]

listCalendars(store, env, outcome) ==
    IF getOAuthClient(env) = <<>> \/ store.tokens = <<>>
    THEN [provider |-> FALSE, rejected |-> FALSE, value |-> <<>>]
    ELSE IF outcome.kind = "rejects"
    THEN [provider |-> TRUE, rejected |-> TRUE, value |-> <<>>]
    ELSE [provider |-> TRUE, rejected |-> FALSE,
          value |-> [k \in 1..Len(outcome.items) |->
                       [ id |-> outcome.items[k].id,
                         summary |-> outcome.items[k].summary,
                         primary |-> "primary" \in DOMAIN outcome.items[k]
                                       /\ outcome.items[k].primary ]]]

\* createCalendarEvent: <<>> for null, else the created event in a 1-tuple
createCalendarEvent(store, env, outcome) ==
    IF getOAuthClient(env) = <<>> \/ store.tokens = <<>>
    THEN [provider |-> FALSE, rejected |-> FALSE, value |-> <<>>]
    ELSE IF outcome.kind = "rejects"
    THEN [provider |-> TRUE, rejected |-> TRUE, value |-> <<>>]
    ELSE IF outcome.data = <<>>
    THEN [provider |-> TRUE, rejected |-> FALSE, value |-> <<>>]
    ELSE IF mapGoogleEvent(outcome.data[1]).threw
    THEN [provider |-> TRUE, rejected |-> TRUE, value |-> <<>>]
    ELSE [provider |-> TRUE, rejected |-> FALSE,
          value |-> <<mapGoogleEvent(outcome.data[1]).value>>]

Called(op, result) ==
    [ op |-> op, provider |-> result.provider, rejected |-> result.rejected,
      value |-> result.value ]

\* exchangeCodeForTokens(code) up to its await
ExchangeCall ==
    /\ xpc = "idle"
    /\ IF getOAuthClient(oauthEnv) = <<>>
       THEN /\ lastCall' = [op |-> "exchangeCodeForTokens", provider |-> FALSE,
                            rejected |-> FALSE, value |-> <<>>]
            /\ UNCHANGED xpc
       ELSE /\ xpc' = "awaiting"
            /\ UNCHANGED lastCall
    /\ UNCHANGED <<tokenStore, oauthEnv>>
    /\ UNCHANGED <<pipelineVars, classifyVars, handlerVars>>

\* exchangeCodeForTokens storing nothing when the exchange gives no
\* access token, and forgetting what was stored
ExchangeReturn_ClearOnPartial ==
    /\ xpc = "awaiting"
    /\ xpc' = "idle"
    /\ \E outcome \in {[kind |-> "rejects", tokens |-> <<>>]}
                        \cup {[kind |-> "ok", tokens |-> <<t>>] : t \in TokenValues} :
          IF outcome.kind = "rejects"
          THEN /\ lastCall' = [op |-> "exchangeCodeForTokens", provider |-> FALSE,
                               rejected |-> TRUE, value |-> <<>>]
               /\ UNCHANGED tokenStore
          ELSE /\ tokenStore' =
                     [tokens |-> IF "access_token" \in DOMAIN outcome.tokens[1]
                                 THEN outcome.tokens ELSE <<>>]
               /\ lastCall' = [op |-> "exchangeCodeForTokens", provider |-> FALSE,
                               rejected |-> FALSE, value |-> outcome.tokens]
    /\ UNCHANGED oauthEnv
    /\ UNCHANGED <<pipelineVars, classifyVars, handlerVars>>

\* const { tokens } = await client.getToken(code); tokenStore.tokens = tokens
ExchangeReturn ==
    /\ xpc = "awaiting"
    /\ xpc' = "idle"
    /\ \E outcome \in {[kind |-> "rejects", tokens |-> <<>>]}
                        \cup {[kind |-> "ok", tokens |-> <<t>>] : t \in TokenValues} :
          IF outcome.kind = "rejects"
          THEN /\ lastCall' = [op |-> "exchangeCodeForTokens", provider |-> FALSE,
                               rejected |-> TRUE, value |-> <<>>]
               /\ UNCHANGED tokenStore
          ELSE /\ tokenStore' = [tokens |-> outcome.tokens]
               /\ lastCall' = [op |-> "exchangeCodeForTokens", provider |-> FALSE,
                               rejected |-> FALSE, value |-> outcome.tokens]
    /\ UNCHANGED oauthEnv
    /\ UNCHANGED <<pipelineVars, classifyVars, handlerVars>>

HasTokensCall ==
    /\ lastCall' = [op |-> "hasTokens", provider |-> FALSE, rejected |-> FALSE,
                    value |-> hasTokens(tokenStore)]
    /\ UNCHANGED <<tokenStore, oauthEnv, xpc>>
    /\ UNCHANGED <<pipelineVars, classifyVars, handlerVars>>

FetchCalendarEventsCall ==
    /\ \E outcome \in ListOutcomes :
          lastCall' = Called("fetchCalendarEvents",
                             fetchCalendarEvents(tokenStore, oauthEnv, outcome))
    /\ UNCHANGED <<tokenStore, oauthEnv, xpc>>
    /\ UNCHANGED <<pipelineVars, classifyVars, handlerVars>>

ListCalendarsCall ==
    /\ \E outcome \in CalendarOutcomes :
          lastCall' = Called("listCalendars",
                             listCalendars(tokenStore, oauthEnv, outcome))
    /\ UNCHANGED <<tokenStore, oauthEnv, xpc>>
    /\ UNCHANGED <<pipelineVars, classifyVars, handlerVars>>

CreateCalendarEventCall ==
    /\ \E outcome \in InsertOutcomes :
          lastCall' = Called("createCalendarEvent",
                             createCalendarEvent(tokenStore, oauthEnv, outcome))
    /\ UNCHANGED <<tokenStore, oauthEnv, xpc>>
    /\ UNCHANGED <<pipelineVars, classifyVars, handlerVars>>

\* the module as loaded, under every setting of the three variables
InitTokens ==
    /\ oauthEnv \in [clientId : BOOLEAN, clientSecret : BOOLEAN,
                     redirectUri : BOOLEAN]
    /\ StoreAtRest
    /\ events = <<>>
    /\ pc = "off"
    /\ i = 0
    /\ enriched = <<>>
    /\ runningCapacity = FullCapacity
    /\ summary = <<>>
    /\ run = 1
    /\ prevOut = <<>>
    /\ geminiConfigured = FALSE
    /\ ClassifyAtRest
    /\ mockEvents = <<>>
    /\ HandlerAtRest

NextTokens ==
    \/ ExchangeCall
    \/ ExchangeReturn
    \/ HasTokensCall
    \/ FetchCalendarEventsCall
    \/ ListCalendarsCall
    \/ CreateCalendarEventCall

SpecTokens == InitTokens /\ [][NextTokens]_vars

-----------------------------------------------------------------------------
(* The routes of index.js: GET /api/events, POST /api/voice/query and the  *)
(* OAuth callback.  The requests arrive one after the other: a request is  *)
(* taken up when the one before it has been answered.  Every await of the  *)
(* two longer handlers ends a step.                                        *)

\* Upper bound on the length of mockEvents
MaxMock == 2

\* ./mockEvents as loaded: events with ISO-8601 start and end, in the
\* order of the file, which need not be the order of their starts
MockFiles ==
    { <<>>,
      << RawEvent("m-2", JSString(TitleTeamSync), 900, 930, 6,
                  "contributor", "status", "routine", <<TagTeam>>) >>,
      << RawEvent("m-2", JSString(TitleTeamSync), 900, 930, 6,
                  "contributor", "status", "routine", <<TagTeam>>),
         RawEvent("m-1", JSString(TitleRoadmap), 540, 600, 4,
                  "decision_maker", "planning", "feedback", <<TagRoadmap>>) >> }

\* new Date(event.start) - new Date(other.start) is NaN
NoOrder(list) == \E k \in 1..Len(list) : IsNaN(list[k].start)

\* the permutations of list
Orders(list) ==
    { [k \in 1..Len(list) |-> list[p[k]]] :
        p \in { q \in [1..Len(list) -> 1..Len(list)] :
                  \A a, b \in 1..Len(list) : a # b => q[a] # q[b] } }

\* sortByStart putting the latest start first
RECURSIVE sortByStart_Descending(_)
sortByStart_Descending(list) ==
    IF list = <<>> THEN <<>>
    ELSE LET e == list[Len(list)]
             sorted == sortByStart_Descending(SubSeq(list, 1, Len(list) - 1))
             k == Cardinality({j \in 1..Len(sorted) : sorted[j].start >= e.start})
         IN  SubSeq(sorted, 1, k) \o <<e>> \o SubSeq(sorted, k + 1, Len(sorted))

\* events.sort((a, b) => new Date(a.start) - new Date(b.start)) on starts
\* that are all dates: ascending, equal starts in their former order
RECURSIVE sortByStart(_)
sortByStart(list) ==
    IF list = <<>> THEN <<>>
    ELSE LET e == list[Len(list)]
             sorted == sortByStart(SubSeq(list, 1, Len(list) - 1))
             k == Cardinality({j \in 1..Len(sorted) : sorted[j].start <= e.start})
         IN  SubSeq(sorted, 1, k) \o <<e>> \o SubSeq(sorted, k + 1, Len(sorted))

\* what the sort may leave in the array: with a comparator that answers
\* NaN the order is up to the engine
sort(list) == IF NoOrder(list) THEN Orders(list) ELSE {sortByStart(list)}

\* { ...event, classification }
WithClassification(event, c) ==
    [ f \in DOMAIN event \cup {"classification"} |->
        IF f = "classification" THEN c ELSE event[f] ]

\* the pipeline's variables while computeEventLoads is not running
PipelineOff ==
    /\ events = <<>>
    /\ pc = "off"
    /\ i = 0
    /\ enriched = <<>>
    /\ runningCapacity = FullCapacity
    /\ summary = <<>>
    /\ run = 1
    /\ prevOut = <<>>

\* Requests of the voice route
QueryBookLunch ==
    <<"b", "o", "o", "k", " ", "l", "u", "n", "c", "h", " ", "a", "t", " ",
      "n", "o", "o", "n">>
QuerySchedule ==
    <<"S", "c", "h", "e", "d", "u", "l", "e", " ", "a", " ", "r", "e", "v",
      "i", "e", "w">>
QueryHowIsMyDay ==
    <<"h", "o", "w", " ", "i", "s", " ", "m", "y", " ", "d", "a", "y">>
QueryAddAMeeting ==
    <<"a", "d", "d", " ", "a", " ", "m", "e", "e", "t", "i", "n", "g">>
AddEvent == <<"a", "d", "d", " ", "e", "v", "e", "n", "t">>
CreateEvent == <<"c", "r", "e", "a", "t", "e", " ", "e", "v", "e", "n", "t">>
Schedule == <<"s", "c", "h", "e", "d", "u", "l", "e">>
Book == <<"b", "o", "o", "k">>
AddMeeting == <<"a", "d", "d", " ", "m", "e", "e", "t", "i", "n", "g">>
CreateMeeting ==
    <<"c", "r", "e", "a", "t", "e", " ", "m", "e", "e", "t", "i", "n", "g">>
NewEvent == <<"N", "e", "w", " ", "E", "v", "e", "n", "t">>
TitleReview == <<"R", "e", "v", "i", "e", "w">>

Queries ==
    { JSString(QueryBookLunch), JSString(QuerySchedule),
      JSString(QueryHowIsMyDay), JSString(QueryAddAMeeting),
      JSNumber(Digits2025) }

\* query.toLowerCase() of a value that is no string is a TypeError
looksLikeCreateEvent(query) ==
    IF query.typeof # "string" THEN [threw |-> TRUE, value |-> FALSE]
    ELSE LET normalized == toLowerCase(query.value)
         IN  [ threw |-> FALSE,
               value |-> \/ includes(normalized, AddEvent)
                         \/ includes(normalized, CreateEvent)
                         \/ includes(normalized, Schedule)
                         \/ includes(normalized, Book)
                         \/ includes(normalized, AddMeeting)
                         \/ includes(normalized, CreateMeeting) ]

\* What parseEventRequestWithGemini settles with: a rejection (no
\* credentials, no network, a body that is no JSON), null (response not
\* ok, text that does not parse), or the parsed value.  start and end are
\* the minute new Date(...) makes of them, NaN when it makes none; a
\* timeZone is the name with whether Intl knows it.
ParseOutcomes ==
    { [kind |-> "rejects"],
      [kind |-> "null"],
      [kind |-> "value", parsed |-> [action |-> "none"]],
      [kind |-> "value", parsed |-> [action |-> "create_event",
                                     title |-> JSString(TitleLunch)]],
      [kind |-> "value", parsed |-> [action |-> "create_event",
                                     title |-> JSString(TitleLunch),
                                     start |-> NaN, end |-> 780]],
      [kind |-> "value", parsed |-> [action |-> "create_event",
                                     title |-> JSString(TitleLunch),
                                     start |-> 720, end |-> 780]],
      [kind |-> "value", parsed |-> [action |-> "create_event",
                                     start |-> 900, end |-> NaN]],
      [kind |-> "value", parsed |-> [action |-> "create_event",
                                     title |-> JSNumber(Digits2025),
                                     start |-> 480]],
      [kind |-> "value", parsed |-> [action |-> "create_event",
                                     title |-> JSString(TitleReview),
                                     start |-> 600, end |-> 660,
                                     timeZone |-> [name |-> "Mars/Phobos",
                                                   known |-> FALSE]]] }

\* parsed.start ? new Date(parsed.start) : null, then the isNaN test
ValidStart(parsed) == "start" \in DOMAIN parsed /\ ~IsNaN(parsed.start)

\* eventPayload; finalEnd is used when parsed.end is missing
eventPayload(parsed) ==
    [ title |-> IF "title" \in DOMAIN parsed /\ Truthy(parsed.title)
                THEN parsed.title ELSE JSString(NewEvent),
      start |-> parsed.start,
      end |-> IF "end" \in DOMAIN parsed THEN parsed.end
              ELSE Plus(parsed.start, 60) ]

\* toLocaleString with a timeZone Intl does not know is a RangeError
formatEventConfirmation(parsed) ==
    IF "timeZone" \in DOMAIN parsed /\ ~parsed.timeZone.known
    THEN [threw |-> TRUE]
    ELSE [threw |-> FALSE]

Warned(query, src, warning) ==
    [ pc |-> "returned", query |-> query, source |-> src, kind |-> "warning",
      warning |-> warning ]

\* GET /api/events sorting mockEvents itself
GetEvents_SortInPlace ==
    /\ hpc = "idle"
    /\ voice.pc = "idle"
    /\ \E src \in {"mock", "google"} :
          /\ source' = src
          /\ IF src = "google" /\ hasTokens(tokenStore)
             THEN /\ hEvents' = mockEvents
                  /\ hpc' = "fetching"
                  /\ UNCHANGED mockEvents
             ELSE /\ hEvents' \in sort(mockEvents)
                  /\ mockEvents' = hEvents'
                  /\ hpc' = "classifying"
    /\ classified' = <<>>
    /\ response' = <<>>
    /\ UNCHANGED voice
    /\ UNCHANGED <<pipelineVars, classifyVars, storeVars>>

\* GET /api/events up to its first await: let events = [...mockEvents],
\* and without source=google or without tokens the sort
GetEvents ==
    /\ hpc = "idle"
    /\ voice.pc = "idle"
    /\ \E src \in {"mock", "google"} :
          /\ source' = src
          /\ IF src = "google" /\ hasTokens(tokenStore)
             THEN /\ hEvents' = mockEvents
                  /\ hpc' = "fetching"
             ELSE /\ hEvents' \in sort(mockEvents)
                  /\ hpc' = "classifying"
    /\ classified' = <<>>
    /\ response' = <<>>
    /\ UNCHANGED <<mockEvents, voice>>
    /\ UNCHANGED <<pipelineVars, classifyVars, storeVars>>

\* events = await fetchCalendarEvents(...), then the sort
GetEventsFetched ==
    /\ hpc = "fetching"
    /\ \E outcome \in ListOutcomes :
          LET fetched == fetchCalendarEvents(tokenStore, oauthEnv, outcome)
          IN  IF fetched.rejected
              THEN /\ response' = [status |-> 500]
                   /\ hpc' = "idle"
                   /\ hEvents' = <<>>
              ELSE /\ hEvents' \in sort(fetched.value)
                   /\ hpc' = "classifying"
                   /\ UNCHANGED response
    /\ UNCHANGED <<mockEvents, source, classified, voice>>
    /\ UNCHANGED <<pipelineVars, classifyVars, storeVars>>

\* for (const event of events): the call classifyWithGemini(event)
GetEventsClassify ==
    /\ hpc = "classifying"
    /\ cpc = "idle"
    /\ Len(classified) < Len(hEvents)
    /\ cEvent' = <<hEvents[Len(classified) + 1]>>
    /\ cpc' = "called"
    /\ UNCHANGED <<geminiConfigured, requests, text, parsedResult, retry, resolved>>
    /\ UNCHANGED <<pipelineVars, storeVars, handlerVars>>

\* the await of classifyWithGemini(event) ends: classified.push, or the
\* catch of the handler
GetEventsClassified ==
    /\ hpc = "classifying"
    /\ cpc \in {"resolved", "rejected"}
    /\ IF cpc = "resolved"
       THEN /\ classified' =
                  Append(classified, WithClassification(cEvent[1], resolved[1]))
            /\ UNCHANGED <<hpc, response>>
       ELSE /\ response' = [status |-> 500]
            /\ hpc' = "idle"
            /\ hEvents' = <<>>
            /\ classified' = <<>>
    /\ cpc' = "idle"
    /\ cEvent' = <<>>
    /\ requests' = 0
    /\ text' = <<>>
    /\ parsedResult' = <<>>
    /\ retry' = <<>>
    /\ resolved' = <<>>
    /\ IF cpc = "resolved" THEN UNCHANGED hEvents ELSE TRUE
    /\ UNCHANGED <<geminiConfigured, mockEvents, source, voice>>
    /\ UNCHANGED <<pipelineVars, storeVars>>

\* the loop is over: computeEventLoads(classified) is called
GetEventsScore ==
    /\ hpc = "classifying"
    /\ cpc = "idle"
    /\ Len(classified) = Len(hEvents)
    /\ hpc' = "scoring"
    /\ events' = classified
    /\ pc' = "idle"
    /\ UNCHANGED <<i, enriched, runningCapacity, summary, run, prevOut>>
    /\ UNCHANGED <<mockEvents, source, hEvents, classified, response, voice>>
    /\ UNCHANGED <<classifyVars, storeVars>>

\* res.json({ events: enriched, summary }): the answer is sent, of which
\* the status is kept, and the handler's locals are gone
GetEventsRespond ==
    /\ hpc = "scoring"
    /\ pc = "done"
    /\ response' = [status |-> 200]
    /\ hpc' = "idle"
    /\ source' = ""
    /\ hEvents' = <<>>
    /\ classified' = <<>>
    /\ events' = <<>>
    /\ pc' = "off"
    /\ i' = 0
    /\ enriched' = <<>>
    /\ runningCapacity' = FullCapacity
    /\ summary' = <<>>
    /\ UNCHANGED <<run, prevOut>>
    /\ UNCHANGED <<mockEvents, voice>>
    /\ UNCHANGED <<classifyVars, storeVars>>

\* handleVoiceAction up to await parseEventRequestWithGemini(query)
VoiceCall ==
    /\ hpc = "idle"
    /\ voice.pc = "idle"
    /\ Len(mockEvents) < MaxMock
    /\ \E query \in Queries, src \in {"mock", "google"} :
          voice' =
            IF looksLikeCreateEvent(query).threw
            THEN [pc |-> "returned", query |-> query, source |-> src,
                  kind |-> "rejected"]
            ELSE IF ~looksLikeCreateEvent(query).value
            THEN [pc |-> "returned", query |-> query, source |-> src,
                  kind |-> "null"]
            ELSE IF ~geminiConfigured
            THEN Warned(query, src, "Gemini is not configured for event creation.")
            ELSE [pc |-> "parsing", query |-> query, source |-> src]
    /\ UNCHANGED <<mockEvents, hpc, source, hEvents, classified, response>>
    /\ UNCHANGED <<pipelineVars, classifyVars, storeVars>>

\* the await of parseEventRequestWithGemini ends; what follows it up to
\* await createCalendarEvent or up to the return
VoiceParsed ==
    /\ voice.pc = "parsing"
    /\ \E outcome \in ParseOutcomes :
          CASE outcome.kind = "rejects" ->
                 /\ voice' = [pc |-> "returned", query |-> voice.query,
                              source |-> voice.source, kind |-> "rejected"]
                 /\ UNCHANGED mockEvents
            [] outcome.kind = "null" ->
                 /\ voice' = Warned(voice.query, voice.source,
                                    "Gemini did not return a valid event.")
                 /\ UNCHANGED mockEvents
            [] outcome.kind = "value" /\ outcome.parsed.action # "create_event" ->
                 /\ voice' = Warned(voice.query, voice.source,
                                    "Gemini did not return a valid event.")
                 /\ UNCHANGED mockEvents
            [] outcome.kind = "value" /\ outcome.parsed.action = "create_event"
                 /\ ~ValidStart(outcome.parsed) ->
                 /\ voice' = Warned(voice.query, voice.source,
                                    "Missing event start time.")
                 /\ UNCHANGED mockEvents
            [] outcome.kind = "value" /\ outcome.parsed.action = "create_event"
                 /\ ValidStart(outcome.parsed) /\ voice.source = "google" ->
                 /\ voice' =
                      IF ~hasTokens(tokenStore)
                      THEN Warned(voice.query, voice.source,
                                  "Missing Google Calendar tokens.")
                      ELSE [pc |-> "creating", query |-> voice.query,
                            source |-> voice.source, parsed |-> outcome.parsed]
                 /\ UNCHANGED mockEvents
            [] outcome.kind = "value" /\ outcome.parsed.action = "create_event"
                 /\ ValidStart(outcome.parsed) /\ voice.source # "google" ->
                 LET payload == eventPayload(outcome.parsed)
                     mockEvent == VoiceEvent("evt-now", payload.title,
                                             payload.start, payload.end)
                 IN  /\ mockEvents' = Append(mockEvents, mockEvent)
                     /\ voice' =
                          [pc |-> "returned", query |-> voice.query,
                           source |-> voice.source, parsed |-> outcome.parsed,
                           kind |-> IF formatEventConfirmation(outcome.parsed).threw
                                    THEN "rejected" ELSE "added"]
    /\ UNCHANGED <<hpc, source, hEvents, classified, response>>
    /\ UNCHANGED <<pipelineVars, classifyVars, storeVars>>

\* the await of createCalendarEvent ends
VoiceCreated ==
    /\ voice.pc = "creating"
    /\ \E outcome \in InsertOutcomes :
          LET created == createCalendarEvent(tokenStore, oauthEnv, outcome)
          IN  voice' =
                IF created.rejected
                THEN [pc |-> "returned", query |-> voice.query,
                      source |-> voice.source, kind |-> "rejected"]
                ELSE IF created.value = <<>>
                THEN Warned(voice.query, voice.source,
                            "Google Calendar insert failed.")
                ELSE [pc |-> "returned", query |-> voice.query,
                      source |-> voice.source, parsed |-> voice.parsed,
                      kind |-> IF formatEventConfirmation(voice.parsed).threw
                               THEN "rejected" ELSE "created"]
    /\ UNCHANGED <<mockEvents, hpc, source, hEvents, classified, response>>
    /\ UNCHANGED <<pipelineVars, classifyVars, storeVars>>

\* POST /api/voice/query after handleVoiceAction has settled: the answer
\* is sent
VoiceRespond ==
    /\ voice.pc = "returned"
    /\ voice' = [pc |-> "idle"]
    /\ UNCHANGED <<mockEvents, hpc, source, hEvents, classified, response>>
    /\ UNCHANGED <<pipelineVars, classifyVars, storeVars>>

\* GET /api/google/oauth/callback with a code: await
\* exchangeCodeForTokens(code), then the redirect or the 500
OAuthCallback ==
    /\ hpc = "idle"
    /\ voice.pc = "idle"
    /\ xpc = "idle"
    /\ getOAuthClient(oauthEnv) # <<>>
    /\ \E outcome \in {[kind |-> "rejects", tokens |-> <<>>]}
                        \cup {[kind |-> "ok", tokens |-> <<t>>] : t \in TokenValues} :
          IF outcome.kind = "rejects" THEN UNCHANGED tokenStore
          ELSE tokenStore' = [tokens |-> outcome.tokens]
    /\ UNCHANGED <<oauthEnv, xpc, lastCall>>
    /\ UNCHANGED <<pipelineVars, classifyVars, handlerVars>>

\* the server after loading its modules
InitServer ==
    /\ mockEvents \in MockFiles
    /\ geminiConfigured \in BOOLEAN
    /\ oauthEnv = [clientId |-> TRUE, clientSecret |-> TRUE, redirectUri |-> TRUE]
    /\ StoreAtRest
    /\ ClassifyAtRest
    /\ HandlerAtRest
    /\ PipelineOff

NextServer ==
    \/ GetEvents
    \/ GetEventsFetched
    \/ GetEventsClassify
    \/ ClassifyEnter
    \/ ClassifyAuth
    \/ ClassifyFetch
    \/ ClassifyRetry
    \/ GetEventsClassified
    \/ GetEventsScore
    \/ Invoke
    \/ LoopStep
    \/ LoopExit
    \/ Summarise
    \/ GetEventsRespond
    \/ VoiceCall
    \/ VoiceParsed
    \/ VoiceCreated
    \/ VoiceRespond
    \/ OAuthCallback

SpecServer == InitServer /\ [][NextServer]_vars

-----------------------------------------------------------------------------
(* The capacity arithmetic in IEEE 754 double precision.  A double that is *)
(* not negative is the whole number of units of 2^-63 it holds, written    *)
(* as its digits in base 2^15, lowest first and without leading zeros;     *)
(* every value of the fold (a load of 0.001 to 1, a cost up to 100, a sum  *)
(* of costs) is such a whole number.  An operation computes the exact      *)
(* result and rounds it to 53 significant bits, ties to even.              *)

Base == 32768

\* the unit is 2^-UnitBits
UnitBits == 63

RECURSIVE BigNorm(_)
BigNorm(a) ==
    IF a # <<>> /\ a[Len(a)] = 0 THEN BigNorm(SubSeq(a, 1, Len(a) - 1)) ELSE a

Digit(a, k) == IF k <= Len(a) THEN a[k] ELSE 0

RECURSIVE BigAddFrom(_, _, _, _)
BigAddFrom(a, b, k, carry) ==
    IF k > Len(a) /\ k > Len(b)
    THEN IF carry = 0 THEN <<>> ELSE <<carry>>
    ELSE LET d == Digit(a, k) + Digit(b, k) + carry
         IN  <<d % Base>> \o BigAddFrom(a, b, k + 1, d \div Base)

BigAdd(a, b) == BigNorm(BigAddFrom(a, b, 1, 0))

\* a - b for a >= b
RECURSIVE BigSubFrom(_, _, _, _)
BigSubFrom(a, b, k, borrow) ==
    IF k > Len(a) THEN <<>>
    ELSE LET d == Digit(a, k) - Digit(b, k) - borrow
         IN  IF d < 0 THEN <<d + Base>> \o BigSubFrom(a, b, k + 1, 1)
             ELSE <<d>> \o BigSubFrom(a, b, k + 1, 0)

BigSub(a, b) == BigNorm(BigSubFrom(a, b, 1, 0))

\* a < b
RECURSIVE BigLessFrom(_, _, _)
BigLessFrom(a, b, k) ==
    IF k = 0 THEN FALSE
    ELSE IF a[k] # b[k] THEN a[k] < b[k]
    ELSE BigLessFrom(a, b, k - 1)

BigLess(a, b) ==
    IF Len(a) # Len(b) THEN Len(a) < Len(b) ELSE BigLessFrom(a, b, Len(a))

\* a * n for 0 <= n < Base
RECURSIVE BigMulFrom(_, _, _, _)
BigMulFrom(a, n, k, carry) ==
    IF k > Len(a)
    THEN IF carry = 0 THEN <<>> ELSE <<carry>>
    ELSE LET d == a[k] * n + carry
         IN  <<d % Base>> \o BigMulFrom(a, n, k + 1, d \div Base)

BigMulSmall(a, n) == BigNorm(BigMulFrom(a, n, 1, 0))

\* quotient and remainder of a by n, 0 < n < Base
RECURSIVE BigDivFrom(_, _, _, _)
BigDivFrom(a, n, k, rem) ==
    IF k = 0 THEN [q |-> <<>>, r |-> rem]
    ELSE LET d == rem * Base + a[k]
             rest == BigDivFrom(a, n, k - 1, d % n)
         IN  [q |-> rest.q \o <<d \div n>>, r |-> rest.r]

BigDivSmall(a, n) ==
    LET res == BigDivFrom(a, n, Len(a), 0)
    IN  [q |-> BigNorm(res.q), r |-> res.r]

RECURSIVE BitsOf(_)
BitsOf(d) == IF d = 0 THEN 0 ELSE 1 + BitsOf(d \div 2)

BitLength(a) == IF a = <<>> THEN 0 ELSE 15 * (Len(a) - 1) + BitsOf(a[Len(a)])

IsOdd(a) == a # <<>> /\ a[1] % 2 = 1

\* bit j of a, the lowest being bit 0
Bit(a, j) == (Digit(a, (j \div 15) + 1) \div (2 ^ (j % 15))) % 2

ShiftLeft(a, s) ==
    IF a = <<>> THEN <<>>
    ELSE [k \in 1..(s \div 15) |-> 0] \o BigMulSmall(a, 2 ^ (s % 15))

\* a shifted right by s > 0 bits, with the highest bit shifted out and
\* whether any bit below it was set or a part below the unit was cut off
ShiftRight(a, s, inexact) ==
    [ q |-> BigDivSmall(SubSeq(a, (s \div 15) + 1, Len(a)), 2 ^ (s % 15)).q,
      half |-> Bit(a, s - 1) = 1,
      sticky |-> inexact \/ \E j \in 0..(s - 2) : Bit(a, j) = 1 ]

\* the exact value a, with inexact telling that a nonzero part below the
\* unit was cut off, rounded to 53 significant bits, ties to even
RoundToDouble(a, inexact) ==
    LET s == BitLength(a) - 53
    IN  IF s <= 0 THEN a
        ELSE LET cut == ShiftRight(a, s, inexact)
                 up == cut.half /\ (cut.sticky \/ IsOdd(cut.q))
             IN  ShiftLeft(IF up THEN BigAdd(cut.q, <<1>>) ELSE cut.q, s)

\* Number(literal) for a whole number below Base
DoubleOfInt(n) == ShiftLeft(BigNorm(<<n>>), UnitBits)

\* Number(value.toFixed(3)) for a value of k thousandths: the double
\* nearest to k / 1000
DoubleOfThousandths(k) ==
    LET exact == BigDivSmall(ShiftLeft(BigNorm(<<k>>), UnitBits), 1000)
    IN  RoundToDouble(exact.q, exact.r # 0)

\* a + b
DoubleAdd(a, b) == RoundToDouble(BigAdd(a, b), FALSE)

\* Math.max(0, a - b)
DoubleMonus(a, b) ==
    IF BigLess(a, b) THEN <<>> ELSE RoundToDouble(BigSub(a, b), FALSE)

\* totalLoad * 100
DoubleTimes100(a) == RoundToDouble(BigMulSmall(a, 100), FALSE)

\* events.reduce((sum, e) => sum + e.capacityCost, 0) in doubles
RECURSIVE ReduceDouble(_)
ReduceDouble(list) ==
    IF list = <<>> THEN <<>>
    ELSE DoubleAdd(ReduceDouble(SubSeq(list, 1, Len(list) - 1)),
                   list[Len(list)].capacityCost)

\* the result of computeSingleEvent with capacityCost = totalLoad * 100 as
\* the double it is
WithDoubleCost(computed) ==
    [ f \in DOMAIN computed |->
        IF f = "capacityCost"
        THEN DoubleTimes100(DoubleOfThousandths(computed.totalLoad))
        ELSE computed[f] ]

\* buildDailySummary on costs that are doubles; totalLoad, rounded to three
\* places by clamp, stays in thousandths
buildDailySummaryDouble(list) ==
    LET totalLoad ==
            clamp(ReduceSum(list, "totalLoad"),
                  IF Len(list) >= 1 THEN Len(list) ELSE 1)
        capacityRemaining == DoubleMonus(DoubleOfInt(100), ReduceDouble(list))
    IN  [ totalLoad |-> totalLoad,
          capacityRemaining |-> capacityRemaining,
          highRisk |-> BigLess(capacityRemaining, DoubleOfInt(20)) ]

\* the loads of the meetings of a sequence are numbers
RECURSIVE NumericLoads(_, _)
NumericLoads(list, prev) ==
    \/ list = <<>>
    \/ /\ ~IsNaN(computeSingleEvent(list[1], prev).totalLoad)
       /\ NumericLoads(SubSeq(list, 2, Len(list)),
                       <<computeSingleEvent(list[1], prev)>>)

\* the inputs of Inputs without those that give NaN, whose arithmetic Spec
\* covers
DoubleInputs == { list \in Inputs : NumericLoads(list, <<>>) }

InitDouble ==
    /\ events \in DoubleInputs
    /\ pc = "idle"
    /\ i = 0
    /\ enriched = <<>>
    /\ runningCapacity = DoubleOfInt(100)
    /\ summary = <<>>
    /\ run = 1
    /\ prevOut = <<>>
    /\ geminiConfigured = FALSE
    /\ ClassifyAtRest
    /\ oauthEnv = NoOAuthEnv
    /\ StoreAtRest
    /\ mockEvents = <<>>
    /\ HandlerAtRest

\* let runningCapacity = 100; const enriched = []
InvokeDouble ==
    /\ pc = "idle"
    /\ runningCapacity' = DoubleOfInt(100)
    /\ enriched' = <<>>
    /\ i' = 0
    /\ pc' = "loop"
    /\ UNCHANGED <<events, summary, run, prevOut>>
    /\ UNCHANGED serverVars

\* the loop body with a predecessor that is never there
LoopStepDouble_NoLookback ==
    /\ pc = "loop"
    /\ i < Len(events)
    /\ LET event == events[i + 1]
           computed == WithDoubleCost(computeSingleEvent(event, <<>>))
           remaining == DoubleMonus(runningCapacity, computed.capacityCost)
       IN  /\ runningCapacity' = remaining
           /\ enriched' = Append(enriched, WithCapacityRemaining(computed, remaining))
    /\ i' = i + 1
    /\ UNCHANGED <<events, pc, summary, run, prevOut>>
    /\ UNCHANGED serverVars

\* one iteration of the loop of computeEventLoads
LoopStepDouble ==
    /\ pc = "loop"
    /\ i < Len(events)
    /\ LET event == events[i + 1]
           prev == PrevOf(enriched, i)
           computed == WithDoubleCost(computeSingleEvent(event, prev))
           remaining == DoubleMonus(runningCapacity, computed.capacityCost)
       IN  /\ runningCapacity' = remaining
           /\ enriched' = Append(enriched, WithCapacityRemaining(computed, remaining))
    /\ i' = i + 1
    /\ UNCHANGED <<events, pc, summary, run, prevOut>>
    /\ UNCHANGED serverVars

\* const summary = buildDailySummary(enriched)
SummariseDouble ==
    /\ pc = "summary"
    /\ summary' = buildDailySummaryDouble(enriched)
    /\ pc' = "done"
    /\ UNCHANGED <<events, i, enriched, runningCapacity, run, prevOut>>
    /\ UNCHANGED serverVars

NextDouble == InvokeDouble \/ LoopStepDouble \/ LoopExit \/ SummariseDouble

SpecDouble == InitDouble /\ [][NextDouble]_vars

-----------------------------------------------------------------------------
(* Properties *)

Returned == pc \in {"summary", "done"}

Parseable(event) == ~IsNaN(event.start) /\ ~IsNaN(event.end)

AllParseable(list) == \A k \in 1..Len(list) : Parseable(list[k])

InUnitRange(x) == LessEq(0, x) /\ LessEq(x, 1000)

\* C1: for every input whose timestamps all parse, mentalLoad,
\* contextSwitchCost and totalLoad of every enriched meeting lie in [0, 1],
\* and so does the totalLoad of the daily summary.
C1_ScoresInUnitRange ==
    AllParseable(events) =>
        /\ \A k \in 1..Len(enriched) :
              /\ InUnitRange(enriched[k].mentalLoad)
              /\ InUnitRange(enriched[k].contextSwitchCost)
              /\ InUnitRange(enriched[k].totalLoad)
        /\ (pc = "done" => InUnitRange(summary.totalLoad))

\* the capacity in front of meeting k
CapacityBefore(k) == IF k = 1 THEN 1000 ELSE enriched[k - 1].capacityRemaining

\* C2: the running capacity starts from 100; the snapshot of meeting k is
\* max(0, previous snapshot - capacityCost of k); snapshots never increase
\* along the sequence and are never negative nor above 100.
C2_CapacityFold ==
    \A k \in 1..Len(enriched) :
        /\ enriched[k].capacityRemaining =
              MathMax(0, Minus(CapacityBefore(k), enriched[k].capacityCost))
        /\ LessEq(enriched[k].capacityRemaining, CapacityBefore(k))
        /\ ~Less(enriched[k].capacityRemaining, 0)
        /\ ~Less(1000, enriched[k].capacityRemaining)

\* C3: when a meeting of the input has an unparseable start or end, the
\* pipeline fails: no enriched meeting is built from an unparseable meeting
\* or from one after it, and computeEventLoads does not return.
C3_InvalidTimestampSurfaced ==
    /\ \A k \in 1..Len(enriched) : AllParseable(SubSeq(events, 1, k))
    /\ (Returned => AllParseable(events))

\* C4: a label that is not a key of its table is scored with the table's
\* default (complexity 0.3, scalar 1.0, role load 0.5, emotional load 0.4)
\* and the enriched meeting still carries numeric scores.
C4_UnknownLabelDefaults ==
    \A k \in 1..Len(enriched) :
        LET c == enriched[k].classification
            x == enriched[k].explanation
        IN  /\ c.meeting_type \notin DOMAIN BASELINES.meetingType
                  => x.complexity = 30
            /\ c.meeting_type \notin DOMAIN BASELINES.meetingTypeScalar
                  => x.meetingTypeScalar = 100
            /\ c.role \notin DOMAIN BASELINES.roleLoad => x.roleLoad = 50
            /\ c.emotional_intensity \notin DOMAIN BASELINES.emotionalLoad
                  => x.emotionalLoad = 40
            /\ (Parseable(enriched[k]) => ~IsNaN(enriched[k].mentalLoad))

\* C5: for the empty input computeEventLoads returns the empty sequence and
\* buildDailySummary returns totalLoad 0, capacityRemaining 100 and
\* highRisk false.
C5_EmptyInput ==
    events = <<>> =>
        /\ (Returned => enriched = <<>>)
        /\ (pc = "done" =>
              /\ summary.totalLoad = 0
              /\ summary.capacityRemaining = 1000
              /\ summary.highRisk = FALSE)

C5_Witness == events = <<>> /\ pc = "done"

\* C6: the first enriched meeting of every non-empty sequence has
\* contextSwitchCost 0, so its totalLoad is its mentalLoad.
C6_FirstHasNoSwitchCost ==
    Len(enriched) >= 1 =>
        /\ enriched[1].contextSwitchCost = 0
        /\ enriched[1].totalLoad = enriched[1].mentalLoad

C6_Witness ==
    /\ Len(enriched) >= 2
    /\ TopicTagsOf(enriched[1].classification) # <<>>
    /\ Less(0, enriched[1].mentalLoad)
    /\ Less(0, enriched[2].contextSwitchCost)

\* C7: durationMinutes of every enriched meeting is at least 15 whatever
\* start and end were recorded; it is max(15, end - start), so an end at or
\* before the start gives exactly 15.
C7_DurationFloor ==
    \A k \in 1..Len(enriched) :
        /\ LessEq(15, enriched[k].durationMinutes)
        /\ (Parseable(enriched[k]) =>
              enriched[k].durationMinutes =
                  IF enriched[k].end - enriched[k].start >= 15
                  THEN enriched[k].end - enriched[k].start ELSE 15)

\* C8: a later invocation of the pipeline on the same input returns exactly
\* what every earlier invocation returned.
C8_RerunIdentical ==
    pc = "done" =>
        \A r \in 1..Len(prevOut) :
            prevOut[r] = [events |-> enriched, summary |-> summary]

C8_Witness ==
    /\ pc = "done"
    /\ run = 2
    /\ Len(enriched) >= 2
    /\ Less(runningCapacity, FullCapacity)
    /\ Less(0, runningCapacity)

\* the capacity costs of a list added up front to back
RECURSIVE CostTotal(_)
CostTotal(list) ==
    IF list = <<>> THEN 0
    ELSE Plus(Head(list).capacityCost, CostTotal(Tail(list)))

\* C9: the summary's capacityRemaining is max(0, 100 - sum of capacityCost)
\* and highRisk is capacityRemaining < 20, strictly: a remaining capacity of
\* exactly 20 is not high risk, costs summing to more than 80 are.
C9_SummaryCapacityAndRisk ==
    pc = "done" =>
        LET total == CostTotal(enriched)
            expected == IF IsNaN(total) THEN NaN
                        ELSE IF total >= 1000 THEN 0 ELSE 1000 - total
        IN  /\ summary.capacityRemaining = expected
            /\ summary.highRisk = (~IsNaN(expected) /\ expected < 200)
            /\ (expected = 200 => summary.highRisk = FALSE)
            /\ (Less(800, total) => summary.highRisk = TRUE)

C9_Witness ==
    /\ pc = "done"
    /\ Len(enriched) >= 1
    /\ summary.capacityRemaining = 200
    /\ summary.highRisk = FALSE

AllCostTen == \A k \in 1..Len(enriched) : enriched[k].capacityCost = 100

\* C10: when every meeting costs 10 capacity points, the snapshot after the
\* k-th meeting is max(0, 100 - 10k): 0 at the 10th, still 0 at the 11th,
\* and the summary of 11 such meetings has capacityRemaining 0 and highRisk
\* true.
C10_TenPointMeetings ==
    AllCostTen =>
        /\ \A k \in 1..Len(enriched) :
              enriched[k].capacityRemaining =
                  IF 100 * k >= 1000 THEN 0 ELSE 1000 - 100 * k
        /\ (pc = "done" /\ Len(enriched) = 11 =>
              /\ summary.capacityRemaining = 0
              /\ summary.highRisk = TRUE)

C10_Witness ==
    /\ pc = "done"
    /\ Len(enriched) = 11
    /\ AllCostTen
    /\ enriched[9].capacityRemaining = 100
    /\ enriched[10].capacityRemaining = 0
    /\ enriched[11].capacityRemaining = 0

\* the number a clamp of num / den thousandths must give
ExpectedClamp(num, den) ==
    IF IsNaN(num) THEN NaN
    ELSE LET r == RoundDiv(num, den)
         IN  IF r < 0 THEN 0 ELSE IF r > 1000 THEN 1000 ELSE r

\* (durationMinutes / 60) (0.35 c + 0.25 r + 0.25 e + 0.15 s) scalar of an
\* enriched meeting, from the weights its explanation records, over 60000
MentalLoadNumerator(e) ==
    LET x == e.explanation
    IN  IF \/ IsNaN(e.durationMinutes) \/ IsNaN(x.complexity) \/ IsNaN(x.roleLoad)
           \/ IsNaN(x.emotionalLoad) \/ IsNaN(x.meetingTypeScalar)
        THEN NaN
        ELSE e.durationMinutes
               * (35 * x.complexity + 25 * x.roleLoad + 25 * x.emotionalLoad
                    + 15 * x.socialLoad)
               * x.meetingTypeScalar

ListedScalarOk(e) ==
    LET t == e.classification.meeting_type
    IN  t \in DOMAIN BASELINES.meetingTypeScalar =>
            e.explanation.meetingTypeScalar =
                IF t = "sync" THEN 30 ELSE IF t = "social" THEN 12 ELSE 100

\* a 30-minute standup, listener, routine, at most 2 attendees, first of the day
IsStandupExample(k) ==
    /\ k = 1
    /\ enriched[k].classification.meeting_type = "standup"
    /\ enriched[k].classification.role = "listener"
    /\ enriched[k].classification.emotional_intensity = "routine"
    /\ enriched[k].attendeeCount = 2
    /\ enriched[k].durationMinutes = 30

TagSet(k) ==
    LET tags == TopicTagsOf(enriched[k].classification)
    IN  {tags[a] : a \in 1..Len(tags)}

SharesTag(k) == TagSet(k) \cap TagSet(k - 1) # {}

\* start of meeting k minus end of meeting k - 1, NaN when one does not parse
RawGap(k) == Minus(enriched[k].start, enriched[k - 1].end)

\* the gap in minutes, negative gaps taken as 0
GapMinutes(k) == IF IsNaN(RawGap(k)) THEN NaN ELSE IF RawGap(k) < 0 THEN 0 ELSE RawGap(k)

\* topic cost in hundredths, dampener in tenths: their product is thousandths
TopicCostOf(k) == IF SharesTag(k) THEN 30 ELSE 100

Dampeners == {10, 8, 5, 2}

BucketOf(gap) == IF gap <= 5 THEN 10 ELSE IF gap <= 15 THEN 8 ELSE IF gap <= 30 THEN 5 ELSE 2

\* C12: a meeting with a predecessor has contextSwitchCost = clamp(topicCost
\* x gapDampener), topicCost 0.3 when the two share a tag and 1.0 otherwise;
\* shared tag and 0-minute gap give 0.3, no shared tag and a 45-minute gap
\* give 0.2.
C12_ContextSwitchFormula ==
    \A k \in 2..Len(enriched) :
        /\ IF IsNaN(GapMinutes(k))
           THEN \E d \in Dampeners :
                    enriched[k].contextSwitchCost = ExpectedClamp(TopicCostOf(k) * d, 1)
           ELSE enriched[k].contextSwitchCost =
                    ExpectedClamp(TopicCostOf(k) * BucketOf(GapMinutes(k)), 1)
        /\ (SharesTag(k) /\ GapMinutes(k) = 0 => enriched[k].contextSwitchCost = 300)
        /\ (~SharesTag(k) /\ GapMinutes(k) = 45 => enriched[k].contextSwitchCost = 200)

C12_Witness ==
    /\ Len(enriched) >= 3
    /\ ~SharesTag(2) /\ GapMinutes(2) = 45 /\ enriched[2].contextSwitchCost = 200
    /\ SharesTag(3) /\ GapMinutes(3) = 0 /\ enriched[3].contextSwitchCost = 300

OverlapCosts == {300, 240, 150, 60}
NoOverlapCosts == {1000, 800, 500, 200}

\* C13: the topics of a meeting and its predecessor overlap exactly when the
\* two tag collections have a tag in common, compared as exact strings (case
\* matters, order does not); an empty or absent collection overlaps with
\* nothing and the topic cost is then 1.0.
C13_TopicOverlap ==
    \A k \in 2..Len(enriched) :
        /\ SharesTag(k) <=> enriched[k].contextSwitchCost \in OverlapCosts
        /\ ~SharesTag(k) <=> enriched[k].contextSwitchCost \in NoOverlapCosts
        /\ (TagSet(k) = {} \/ TagSet(k - 1) = {} =>
              enriched[k].contextSwitchCost \in NoOverlapCosts)

\* a second tag matching a first one (overlap), then design against Design
\* (no overlap)
C13_Witness ==
    /\ Len(enriched) >= 3
    /\ TagSet(1) = {"hr", "design"} /\ TagSet(2) = {"design"}
    /\ enriched[2].contextSwitchCost \in OverlapCosts
    /\ TagSet(3) = {"Design"}
    /\ enriched[3].contextSwitchCost \in NoOverlapCosts

\* C14: a meeting that starts before its predecessor ends has gap 0,
\* dampener 1.0 and contextSwitchCost equal to the topic cost, 0.3 or 1.0.
C14_NegativeGap ==
    \A k \in 2..Len(enriched) :
        Less(RawGap(k), 0) =>
            enriched[k].contextSwitchCost = (IF SharesTag(k) THEN 300 ELSE 1000)

C14_Witness ==
    /\ Returned
    /\ Len(enriched) >= 3
    /\ Less(RawGap(2), -30) /\ SharesTag(2) /\ enriched[2].contextSwitchCost = 300
    /\ Less(RawGap(3), -30) /\ ~SharesTag(3) /\ enriched[3].contextSwitchCost = 1000

\* the dampener (tenths) the code applied to meeting k
AppliedDampener(k) == enriched[k].contextSwitchCost \div TopicCostOf(k)

\* C15: the gap dampener is total in the gap, with inclusive upper bounds:
\* up to 5 minutes 1.0, up to 15 minutes 0.8, up to 30 minutes 0.5, beyond
\* 0.2; gaps of exactly 5, 15 and 30 minutes belong to the lower bucket.
C15_GapDampenerBuckets ==
    \A k \in 2..Len(enriched) :
        LET g == GapMinutes(k)
            d == AppliedDampener(k)
        IN  /\ d \in Dampeners
            /\ enriched[k].contextSwitchCost = TopicCostOf(k) * d
            /\ (LessEq(g, 5) => d = 10)
            /\ (Less(5, g) /\ LessEq(g, 15) => d = 8)
            /\ (Less(15, g) /\ LessEq(g, 30) => d = 5)
            /\ (Less(30, g) => d = 2)
            /\ (g = 5 => d = 10) /\ (g = 15 => d = 8) /\ (g = 30 => d = 5)

C15_Witness ==
    /\ Len(enriched) >= 3
    /\ GapMinutes(2) = 30 /\ AppliedDampener(2) = 5
    /\ GapMinutes(3) = 5 /\ AppliedDampener(3) = 10

\* C16: socialLoad is total in the attendee count, with inclusive upper
\* bounds: up to 2 attendees 0.2, 3 to 5 0.4, 6 to 10 0.6, 11 to 20 0.8,
\* more than 20 1.0; a count of 0 or a missing count scores 0.2.
C16_SocialLoadBuckets ==
    \A k \in 1..Len(enriched) :
        LET e == enriched[k]
            expected ==
                IF "attendeeCount" \notin DOMAIN e THEN 20
                ELSE IF e.attendeeCount <= 2 THEN 20
                ELSE IF e.attendeeCount <= 5 THEN 40
                ELSE IF e.attendeeCount <= 10 THEN 60
                ELSE IF e.attendeeCount <= 20 THEN 80
                ELSE 100
        IN  e.socialLoad = expected /\ e.explanation.socialLoad = expected

\* a count of 0, a missing count and a count of exactly 20
C16_Witness ==
    /\ Len(enriched) >= 3
    /\ "attendeeCount" \in DOMAIN enriched[1]
    /\ enriched[1].attendeeCount = 0 /\ enriched[1].socialLoad = 20
    /\ "attendeeCount" \notin DOMAIN enriched[2] /\ enriched[2].socialLoad = 20
    /\ "attendeeCount" \in DOMAIN enriched[3]
    /\ enriched[3].attendeeCount = 20 /\ enriched[3].socialLoad = 80

\* the hour of the local start time of enriched meeting k
StartHour(k) == (enriched[k].start \div 60) % 24

\* C17: the time-of-day bucket follows the start hour (below 12 morning,
\* 12..14 midday, 15..17 afternoon, from 18 evening) and recoveryMinutes is
\* totalLoad x 20 x the bucket's multiplier (1.0, 1.1, 1.2, 1.4), hence
\* always between 0 and 28.
C17_TimeOfDayAndRecovery ==
    \A k \in 1..Len(enriched) :
        LET e == enriched[k]
            multiplier == IF e.timeOfDay = "morning" THEN 10
                          ELSE IF e.timeOfDay = "midday" THEN 11
                          ELSE IF e.timeOfDay = "afternoon" THEN 12
                          ELSE 14
        IN  /\ (~IsNaN(e.start) =>
                  e.timeOfDay = (IF StartHour(k) < 12 THEN "morning"
                                 ELSE IF StartHour(k) <= 14 THEN "midday"
                                 ELSE IF StartHour(k) <= 17 THEN "afternoon"
                                 ELSE "evening"))
            /\ e.recoveryMinutes = Times(e.totalLoad, 20 * multiplier)
            /\ LessEq(0, e.recoveryMinutes)
            /\ LessEq(e.recoveryMinutes, 280000)

\* C18: totalLoad is clamp(mentalLoad + contextSwitchCost), 1 as soon as the
\* sum reaches 1, and capacityCost is totalLoad x 100, hence within [0, 100].
C18_TotalLoadAndCost ==
    \A k \in 1..Len(enriched) :
        LET e == enriched[k]
        IN  /\ e.totalLoad = ExpectedClamp(Plus(e.mentalLoad, e.contextSwitchCost), 1)
            /\ (LessEq(1000, Plus(e.mentalLoad, e.contextSwitchCost))
                  => e.totalLoad = 1000)
            /\ e.capacityCost = e.totalLoad
            /\ LessEq(0, e.capacityCost)
            /\ LessEq(e.capacityCost, 1000)

\* the totalLoad values of a list added up front to back
RECURSIVE LoadTotal(_)
LoadTotal(list) ==
    IF list = <<>> THEN 0
    ELSE Plus(Head(list).totalLoad, LoadTotal(Tail(list)))

\* C19: the summary's totalLoad is clamp(sum of the meetings' totalLoad /
\* max(1, number of meetings)): their mean for a non-empty sequence, 0 for
\* the empty one.
C19_SummaryMeanLoad ==
    pc = "done" =>
        summary.totalLoad =
            IF enriched = <<>> THEN 0
            ELSE ExpectedClamp(LoadTotal(enriched), Len(enriched))

\* three meetings whose loads differ and whose mean is not a whole
\* thousandth
C19_Witness ==
    /\ pc = "done"
    /\ Len(enriched) = 3
    /\ ~IsNaN(LoadTotal(enriched))
    /\ LoadTotal(enriched) % 3 # 0
    /\ LoadTotal(enriched) < 1000
    /\ summary.totalLoad = ExpectedClamp(LoadTotal(enriched), 3)

C20_Position ==
    /\ Len(enriched) <= Len(events)
    /\ (Returned => Len(enriched) = Len(events))
    /\ \A k \in 1..Len(enriched) :
          /\ enriched[k].id = events[k].id
          /\ enriched[k].start = events[k].start
          /\ enriched[k].end = events[k].end

C20_Frozen ==
    pc' # "idle" =>
        \A k \in 1..Len(enriched) :
            Len(enriched') >= k /\ enriched'[k] = enriched[k]

\* C20: computeEventLoads yields one enriched meeting per input meeting, at
\* the input's position (same id, start and end), also for an input that is
\* not in ascending start order; an enriched meeting, once appended, is not
\* changed by the processing of later meetings.
C20_OnePerInputInOrder == [](C20_Position) /\ [][C20_Frozen]_vars

C20_Witness ==
    /\ pc = "done"
    /\ Len(enriched) = 3
    /\ Less(enriched[2].start, enriched[1].start)
    /\ Less(enriched[2].start, enriched[3].start)
    /\ enriched[1].id # enriched[2].id

-----------------------------------------------------------------------------
(* Frame, value set of the context-switch cost, positivity of the load *)

\* C22: computeEventLoads and buildDailySummary leave their input as it was:
\* no step of either changes the length or the order of the input sequence,
\* nor adds, removes or alters a field of an input meeting or of its
\* classification.  (BASELINES is a definition here as it is a constant
\* there: no statement of the pipeline assigns to it.)
C22_InputUnchanged == [][events' = events]_vars

C22_Witness ==
    /\ pc = "done"
    /\ run = 2
    /\ Len(events) >= 2
    /\ Len(enriched) = Len(events)
    /\ DOMAIN enriched[1] # DOMAIN events[1]

SwitchCostValues == {0} \cup OverlapCosts \cup NoOverlapCosts

\* the costs the same_project (0.0) and different_domain (0.7) weights
\* would give under the four dampeners
UnusedWeightCosts == {0, 700, 560, 350, 140}

\* C24: contextSwitchCost takes one of nine values only: 0 for the first
\* meeting, and for a later meeting 0.3, 0.24, 0.15 or 0.06 when the topics
\* overlap and 1.0, 0.8, 0.5 or 0.2 when they do not; a meeting with a
\* predecessor never costs less than 0.06, and no cost is one the
\* same_project or different_domain weight would give.
C24_NineSwitchCosts ==
    \A k \in 1..Len(enriched) :
        LET c == enriched[k].contextSwitchCost
        IN  /\ c \in SwitchCostValues
            /\ (k = 1 => c = 0)
            /\ (k >= 2 => /\ c \in OverlapCosts \cup NoOverlapCosts
                          /\ c >= 60
                          /\ c \notin UnusedWeightCosts)

\* the smallest cost after a long gap, the largest after an overlap in time
C24_Witness ==
    /\ Len(enriched) = 3
    /\ enriched[1].contextSwitchCost = 0
    /\ SharesTag(2) /\ Less(30, GapMinutes(2)) /\ enriched[2].contextSwitchCost = 60
    /\ ~SharesTag(3) /\ Less(RawGap(3), 0) /\ enriched[3].contextSwitchCost = 1000

\* every label of the meeting is a key of its table or is found nowhere, so
\* that the table's weight or its default is the factor
LabelsScored(e) ==
    /\ e.classification.meeting_type \notin ObjectPrototypeKeys
    /\ e.classification.role \notin ObjectPrototypeKeys
    /\ e.classification.emotional_intensity \notin ObjectPrototypeKeys

InScope(e) == Parseable(e) /\ LabelsScored(e)

\* C26: a meeting with parseable timestamps whose labels are table keys or
\* fall back to the defaults has totalLoad of at least 0.005 and therefore a
\* positive capacityCost: its snapshot is strictly below the snapshot before
\* it while that one is above 0, and 0 once that one is 0; with only such
\* meetings, every snapshot after a snapshot of 0 is 0.
C26_PositiveLoad ==
    /\ \A k \in 1..Len(enriched) :
          InScope(enriched[k]) =>
              /\ LessEq(5, enriched[k].totalLoad)
              /\ Less(0, enriched[k].capacityCost)
              /\ (Less(0, CapacityBefore(k)) =>
                    Less(enriched[k].capacityRemaining, CapacityBefore(k)))
              /\ (CapacityBefore(k) = 0 => enriched[k].capacityRemaining = 0)
    /\ ((\A k \in 1..Len(enriched) : InScope(enriched[k])) =>
          \A j \in 1..Len(enriched) : \A k \in j..Len(enriched) :
              enriched[j].capacityRemaining = 0 =>
                  enriched[k].capacityRemaining = 0)

\* capacity falling meeting by meeting until it is used up, and staying at 0
C26_Witness ==
    /\ Len(enriched) >= 5
    /\ \A k \in 1..Len(enriched) : InScope(enriched[k])
    /\ \E j \in 3..(Len(enriched) - 1) :
          /\ \A k \in 1..(j - 1) :
                Less(enriched[k].capacityRemaining, CapacityBefore(k))
          /\ Less(0, enriched[j - 1].capacityRemaining)
          /\ enriched[j].capacityRemaining = 0
          /\ enriched[j + 1].capacityRemaining = 0

\* the lightest meeting there is: 15 minutes of a social, listening,
\* routine, at most two attendees
C26_Lightest ==
    \E k \in 1..Len(enriched) :
        /\ InScope(enriched[k])
        /\ enriched[k].totalLoad = 5

-----------------------------------------------------------------------------
(* Classification of one event *)

\* the event's own label, or the default where it has none
OwnLabel(event, field, default) ==
    IF field \notin DOMAIN event THEN default
    ELSE IF event[field] = "" THEN default
    ELSE event[field]

\* the classification made of the event's own fields
OwnClassification(event) ==
    [ meeting_type |-> OwnLabel(event, "meetingType", "status"),
      role |-> OwnLabel(event, "userRole", "contributor"),
      emotional_intensity |-> OwnLabel(event, "emotionalIntensity", "routine"),
      topic_tags |-> IF "topicTags" \in DOMAIN event THEN event.topicTags
                     ELSE <<TagGeneral>> ]

\* the text the classification is taken from parsed
OutputParsed == parsedResult # <<>> /\ parsedResult[1].ok

FourFieldsSet(c) ==
    /\ DOMAIN c = {"meeting_type", "role", "emotional_intensity", "topic_tags"}
    /\ c.meeting_type # ""
    /\ c.role # ""
    /\ c.emotional_intensity # ""

\* c is base, but for the meeting type and intensity the title of the
\* event may have put in their place (social or sync, routine)
TakenFrom(c, base) ==
    /\ c.role = base.role
    /\ c.topic_tags = base.topic_tags
    /\ \/ /\ c.meeting_type = base.meeting_type
          /\ c.emotional_intensity = base.emotional_intensity
       \/ /\ c.meeting_type \in {"social", "sync"}
          /\ c.emotional_intensity = "routine"

\* C27: classifyWithGemini never rejects; whatever the external calls end
\* in, it resolves with a classification whose meeting_type, role,
\* emotional_intensity and topic_tags are set: the ones of the model output
\* when it parsed, else the event's own fields with the defaults status,
\* contributor, routine and [general] (in both cases with the type and
\* intensity a birthday or sync title dictates).
C27_NeverRejects ==
    /\ cpc # "rejected"
    /\ (cpc = "resolved" =>
          /\ FourFieldsSet(resolved[1])
          /\ TakenFrom(resolved[1],
                       IF OutputParsed THEN parsedResult[1].classification
                       ELSE OwnClassification(cEvent[1])))

HasToken(toks, t) == \E k \in 1..Len(toks) : toks[k].t = t

\* the first response was ok, its text did not parse and has an opening
\* brace but no closing one
RetryCalledFor ==
    /\ text # <<>>
    /\ ~parseGeminiOutput(text[1], cEvent[1]).ok
    /\ HasToken(text[1], "{")
    /\ ~HasToken(text[1], "}")

\* C28: classifyWithGemini sends at most two requests for an event; the
\* second, the retry, only when the first response was ok and its text did
\* not parse and holds an opening brace but no closing one; a retry that
\* fails or brings an empty text leaves the result of the first parse, the
\* fallback classification, in place; no request follows the retry.
C28_AtMostOneRetry ==
    /\ requests <= 2
    /\ (cpc = "retry" => requests = 1 /\ RetryCalledFor)
    /\ (requests = 2 => RetryCalledFor /\ retry # <<>> /\ cpc \in {"resolved", "rejected"})
    /\ (retry # <<>> /\ retry[1].text = <<>> =>
          parsedResult[1] =
              [ok |-> FALSE, classification |-> OwnClassification(cEvent[1])])

\* a retry whose text parsed, after a first text cut off behind its members
C28_Witness ==
    /\ requests = 2
    /\ cpc = "resolved"
    /\ HasToken(text[1], "members")
    /\ retry[1].text # <<>>
    /\ parsedResult[1].ok

\* a retry that failed
C28_RetryFailed ==
    /\ requests = 2
    /\ cpc = "resolved"
    /\ retry[1].text = <<>>
    /\ resolved[1] = OwnClassification(cEvent[1])

(***************************************************************************)
(* The OAuth token store                                                   *)
(***************************************************************************)

StoreEmpty == tokenStore.tokens = <<>>

EmptyResult(op) ==
    CASE op = "hasTokens" -> FALSE
      [] op = "fetchCalendarEvents" -> <<>>
      [] op = "listCalendars" -> <<>>
      [] op = "createCalendarEvent" -> <<>>

\* one step of the module, as the claim reads it
StoreStep ==
    /\ tokenStore' # tokenStore
         => /\ xpc = "awaiting"
            /\ getOAuthClient(oauthEnv) # <<>>
            /\ lastCall'.op = "exchangeCodeForTokens"
            /\ ~lastCall'.rejected
            /\ lastCall'.value # <<>>
            /\ tokenStore'.tokens = lastCall'.value
    /\ tokenStore'.tokens = <<>> => tokenStore.tokens = <<>>
    /\ lastCall' # <<>>
         => /\ lastCall'.op = "exchangeCodeForTokens"
                 /\ (lastCall'.rejected \/ getOAuthClient(oauthEnv) = <<>>)
                 => tokenStore' = tokenStore
            /\ StoreEmpty /\ lastCall'.op # "exchangeCodeForTokens"
                 => /\ ~lastCall'.provider
                    /\ ~lastCall'.rejected
                    /\ lastCall'.value = EmptyResult(lastCall'.op)

\* C29: the token store starts empty; it changes only when an
\* exchangeCodeForTokens call gets tokens from getToken, and then to those
\* tokens; an exchange that returns early for missing OAuth configuration
\* or whose getToken rejects leaves it unchanged; once written it is never
\* empty again; and while it is empty hasTokens is false and
\* fetchCalendarEvents, listCalendars and createCalendarEvent return [],
\* [] and null without asking the calendar provider.
C29_TokenStoreFrame == StoreEmpty /\ [][StoreStep]_vars

\* tokens were stored by an exchange, and a later call reached the provider
C29_Witness ==
    /\ ~StoreEmpty
    /\ lastCall # <<>>
    /\ lastCall.op = "fetchCalendarEvents"
    /\ lastCall.provider

\* a fetch on the empty store with the OAuth configuration complete
C29_EmptyFetch ==
    /\ StoreEmpty
    /\ getOAuthClient(oauthEnv) # <<>>
    /\ lastCall # <<>>
    /\ lastCall.op = "fetchCalendarEvents"
    /\ ~lastCall.provider

\* an exchange whose getToken rejected
C29_ExchangeRejected ==
    /\ lastCall # <<>>
    /\ lastCall.op = "exchangeCodeForTokens"
    /\ lastCall.rejected

(***************************************************************************)
(* GET /api/events: the order of its steps; the mockEvents store           *)
(***************************************************************************)

\* a and b hold the same events, each as often
SameEvents(a, b) ==
    /\ Len(a) = Len(b)
    /\ \A k \in 1..Len(a) :
          Cardinality({j \in 1..Len(a) : a[j] = a[k]})
            = Cardinality({j \in 1..Len(b) : b[j] = a[k]})

\* among the events whose start is a date, no later start comes first
AscendingByStart(list) ==
    \A a, b \in 1..Len(list) :
       a < b /\ ~IsNaN(list[a].start) /\ ~IsNaN(list[b].start)
          => list[a].start <= list[b].start

\* c is the event e with one classification attached
Classified(c, e) ==
    /\ DOMAIN c = DOMAIN e \cup {"classification"}
    /\ \A f \in DOMAIN e \ {"classification"} : c[f] = e[f]
    /\ {"meeting_type", "role", "emotional_intensity", "topic_tags"}
          \subseteq DOMAIN c.classification

\* the state of the handler between its steps
HandlerOrder ==
    /\ hpc \in {"classifying", "scoring"}
         => /\ AscendingByStart(hEvents)
            /\ Len(classified) <= Len(hEvents)
            /\ \A k \in 1..Len(classified) : Classified(classified[k], hEvents[k])
    /\ hpc = "scoring"
         => /\ Len(classified) = Len(hEvents)
            /\ events = classified
    /\ hpc # "classifying" => cpc = "idle"
    /\ hpc # "scoring" => pc = "off"

\* the steps of the handler
HandlerStep ==
    /\ hpc' # hpc
         => \/ hpc = "idle" /\ hpc' = "fetching"
            \/ hpc = "idle" /\ hpc' = "classifying"
                 /\ SameEvents(hEvents', mockEvents)
            \/ hpc = "fetching" /\ hpc' = "classifying"
                 /\ \E outcome \in ListOutcomes :
                       SameEvents(hEvents',
                                  fetchCalendarEvents(tokenStore, oauthEnv,
                                                      outcome).value)
            \/ hpc = "classifying" /\ hpc' = "scoring"
            \/ hpc' = "idle" /\ response'.status = 500
            \/ hpc = "scoring" /\ hpc' = "idle" /\ pc = "done"
                 /\ response'.status = 200
    /\ hpc' = hpc /\ hpc # "idle" => hEvents' = hEvents
    /\ summary' # summary /\ summary' # <<>>
         => /\ Len(enriched) = Len(events)
            /\ summary' = buildDailySummary(enriched)

\* C23: GET /api/events retrieves, sorts, classifies, scores and summarises
\* in this order: classifyWithGemini is called only on the sorted
\* sequence, computeEventLoads is handed the sorted events in the sorted
\* order with one classification attached to each, none dropped and none
\* moved, the sorted sequence holds the retrieved events and, for the
\* events whose start is a date, is ascending by start, and the summary is
\* made of the full enriched sequence.
C23_HandlerOrder == []HandlerOrder /\ [][HandlerStep]_vars

\* a store whose file order is not the order of the starts has been
\* sorted, classified and scored
C23_Witness ==
    /\ hpc = "scoring"
    /\ pc = "done"
    /\ source = "mock"
    /\ Len(mockEvents) = 2
    /\ mockEvents[1].start > mockEvents[2].start
    /\ Len(enriched) = 2

\* events retrieved from the calendar provider have been scored
C23_Google ==
    /\ hpc = "scoring"
    /\ pc = "done"
    /\ source = "google"
    /\ Len(enriched) = 2

\* one step of the server, as the claim reads it
MockStep ==
    /\ mockEvents' # mockEvents
         => /\ voice.pc = "parsing"
            /\ looksLikeCreateEvent(voice.query).value
            /\ geminiConfigured
            /\ voice.source # "google"
            /\ voice'.pc = "returned"
            /\ "parsed" \in DOMAIN voice'
            /\ voice'.parsed.action = "create_event"
            /\ ValidStart(voice'.parsed)
            /\ Len(mockEvents') = Len(mockEvents) + 1
            /\ SubSeq(mockEvents', 1, Len(mockEvents)) = mockEvents
            /\ mockEvents'[Len(mockEvents')].start = voice'.parsed.start
    /\ voice' # voice /\ voice'.pc = "returned"
         /\ (voice'.kind \in {"null", "warning", "created"}
               \/ voice'.source = "google")
         => mockEvents' = mockEvents
    /\ hpc' # hpc \/ hpc # "idle" => mockEvents' = mockEvents

\* C30: mockEvents changes only when a voice request whose query looks
\* like event creation, with Gemini configured, a parsed action
\* create_event, a valid start and a source other than google reaches the
\* mock branch, and then by exactly one event appended; every other path of
\* handleVoiceAction and every step of GET /api/events leave its length and
\* order as they are.
C30_MockEventsFrame == [][MockStep]_vars

\* the voice action has added an event to a store that held one
C30_Witness ==
    /\ voice.pc = "returned"
    /\ voice.kind = "added"
    /\ Len(mockEvents) = 2

\* the event was added and the confirmation then failed
C30_AddedThenRejected ==
    /\ voice.pc = "returned"
    /\ voice.kind = "rejected"
    /\ voice.source # "google"
    /\ "parsed" \in DOMAIN voice

\* the store was sorted for a request and is in its former order
C30_CopySorted ==
    /\ hpc = "classifying"
    /\ Len(mockEvents) = 2
    /\ mockEvents[1].start > mockEvents[2].start
    /\ hEvents # mockEvents

(***************************************************************************)
(* The fold of the capacity and its restructurings, in doubles             *)
(***************************************************************************)

\* pass 1 for position k: the scores and the context-switch cost of
\* meeting k, computed from the input meetings k and k - 1 only
PassOne(list, k) ==
    WithDoubleCost(computeSingleEvent(list[k],
                                      IF k = 1 THEN <<>> ELSE <<list[k - 1]>>))

\* the costs of pass 1, added from the left
RECURSIVE PrefixSum(_, _)
PrefixSum(list, k) ==
    IF k = 0 THEN <<>>
    ELSE DoubleAdd(PrefixSum(list, k - 1), PassOne(list, k).capacityCost)

\* pass 2 as a prefix sum: max(0, 100 - sum of the costs up to k)
TwoPassPrefixSum(list) ==
    [ k \in 1..Len(list) |->
        WithCapacityRemaining(PassOne(list, k),
                              DoubleMonus(DoubleOfInt(100), PrefixSum(list, k))) ]

\* the capacity after meeting k, each cost taken off in turn
RECURSIVE Scan(_, _)
Scan(list, k) ==
    IF k = 0 THEN DoubleOfInt(100)
    ELSE DoubleMonus(Scan(list, k - 1), PassOne(list, k).capacityCost)

\* pass 2 as a scan of max(0, capacity - cost) over the costs of pass 1
TwoPassScan(list) ==
    [ k \in 1..Len(list) |->
        WithCapacityRemaining(PassOne(list, k), Scan(list, k)) ]

\* C21 as stated: the two passes with a prefix sum in pass 2 give the
\* enriched sequence computeEventLoads returns.
C21_TwoPassPrefixSum == Returned => enriched = TwoPassPrefixSum(events)

\* C21, amended: the two passes give the enriched sequence
\* computeEventLoads returns when pass 2 takes the costs of pass 1 off the
\* capacity one after the other, flooring at 0 each time.
C21_TwoPassScan == Returned => enriched = TwoPassScan(events)

\* a sequence whose later meetings have a context-switch cost was returned
C21_Witness ==
    /\ Returned
    /\ Len(enriched) >= 2
    /\ enriched[2].contextSwitchCost > 0
    /\ enriched = TwoPassScan(events)
    /\ enriched # TwoPassPrefixSum(events)

\* C25: the capacityRemaining of the summary of a sequence that is not
\* empty is the capacityRemaining attached to its last enriched meeting.
C25_SummaryIsLastSnapshot ==
    pc = "done" /\ enriched # <<>>
       => summary.capacityRemaining = enriched[Len(enriched)].capacityRemaining

\* the two differ by a few units of the last binary place in the returned
\* result, and agree in others
C25_Differ ==
    /\ pc = "done"
    /\ enriched # <<>>
    /\ summary.capacityRemaining # enriched[Len(enriched)].capacityRemaining

C25_Agree ==
    /\ pc = "done"
    /\ Len(enriched) >= 2
    /\ summary.capacityRemaining = enriched[Len(enriched)].capacityRemaining

====
